---- MODULE Spec2Model ----
(***************************************************************************)
(* A model of the link-syntax rewriting engine of albus-imagine: the       *)
(* embed-token codec of ImageContextMenu / ImagePickerModal, the size      *)
(* rewrite of LinkUpdateService, the locator and the disambiguator.        *)
(*                                                                         *)
(* Text is modelled as a sequence of one-character strings, so that        *)
(* split / trim / includes / replace and the regular expressions of the    *)
(* source are computed character by character, as the code computes them.  *)
(***************************************************************************)
EXTENDS Integers, Sequences, FiniteSets, TLC

VARIABLES
    link,       \* codec: the embed token text under edit
    prevLink,   \* codec: the token text before the last operation (<<>> after an insert)
    lastOp,     \* codec: the last operation applied, with its arguments
    doc,        \* edit: the document of the active editor, a sequence of lines
    notices,    \* edit: the Notices raised by the last handler invocation
    call,       \* edit: the last handler invocation: its inputs and what it located
    session,    \* edit: the open caption input box and the match it was opened on
    opCount,    \* edit: the number of handler invocations so far
    referenceCache, \* refs: the Map of ReferenceCache, path -> {references, referenceCount}
    backlinks,  \* refs: what the metadata cache answers for each image file
    calls,      \* refs: the checkReferences calls suspended between batches
    queryCount, \* refs: backlink queries per path since the cache was last invalidated
    svcStep,    \* refs: the last service operation that ran, and what it left
    view,       \* refs: the fields of ImageManagerView
    vault,      \* refs: the image files of the vault, and what was deleted from it
    refOps,     \* refs: the number of user and environment events so far
    drag        \* drag: the fields of ResizeHandler, the clock and the rewrites issued

codecVars == <<link, prevLink, lastOp>>

editVars == <<doc, notices, call, session, opCount>>

refVars == <<referenceCache, backlinks, calls, queryCount, svcStep, view, vault, refOps>>

dragVars == <<drag>>

vars == <<link, prevLink, lastOp, doc, notices, call, session, opCount,
          referenceCache, backlinks, calls, queryCount, svcStep, view, vault, refOps, drag>>

(***************************************************************************)
(* JavaScript string primitives, on sequences of characters.               *)
(***************************************************************************)

Digits == {"0", "1", "2", "3", "4", "5", "6", "7", "8", "9"}

\* \s of a JavaScript regular expression, restricted to the model's alphabet
isSpace(c) == c = " "

\* characters m..n of s (1-based, inclusive), clamped to the text as JavaScript clamps
cut(s, m, n) ==
    LET a == IF m < 1 THEN 1 ELSE m
        b == IF n > Len(s) THEN Len(s) ELSE n
    IN  IF a > b THEN <<>> ELSE SubSeq(s, a, b)

MinOf(S) == CHOOSE x \in S : \A y \in S : x <= y

MaxOf(S) == CHOOSE x \in S : \A y \in S : x >= y

\* body(v), with v evaluated once: `const x = v; ... body`
bind(v, body(_)) == CHOOSE r \in {body(x) : x \in {v}} : TRUE

\* String.prototype.indexOf: 0-based position of the first occurrence, or -1
indexOf(s, sub) ==
    LET hits == {i \in 0..(Len(s) - Len(sub)) : cut(s, i + 1, i + Len(sub)) = sub}
    IN  IF hits = {} THEN -1 ELSE MinOf(hits)

includes(s, sub) == indexOf(s, sub) # -1

startsWith(s, pre) == Len(s) >= Len(pre) /\ cut(s, 1, Len(pre)) = pre

endsWith(s, suf) == Len(s) >= Len(suf) /\ cut(s, Len(s) - Len(suf) + 1, Len(s)) = suf

\* String.prototype.substring(from, to), 0-based, end exclusive
substring(s, from, to) == cut(s, from + 1, to)

\* String.prototype.split with a one-character separator
RECURSIVE split(_, _)
split(s, sep) ==
    IF \A i \in 1..Len(s) : s[i] # sep
    THEN <<s>>
    ELSE LET k == MinOf({i \in 1..Len(s) : s[i] = sep})
         IN  <<cut(s, 1, k - 1)>> \o split(cut(s, k + 1, Len(s)), sep)

\* Array.prototype.join
RECURSIVE join(_, _)
join(parts, sep) ==
    IF Len(parts) = 0 THEN <<>>
    ELSE IF Len(parts) = 1 THEN parts[1]
    ELSE parts[1] \o sep \o join(Tail(parts), sep)

\* String.prototype.trim
trim(s) ==
    LET solid == {i \in 1..Len(s) : ~isSpace(s[i])}
    IN  IF solid = {} THEN <<>> ELSE cut(s, MinOf(solid), MaxOf(solid))

\* /^\d+$/.test(s)
isDigits(s) == Len(s) > 0 /\ \A i \in 1..Len(s) : s[i] \in Digits

\* /^\s*$/.test(s)
isBlank(s) == \A i \in 1..Len(s) : isSpace(s[i])

\* Array.prototype.find(pred) || dflt
findOr(parts, pred(_), dflt) ==
    LET hits == {i \in 1..Len(parts) : pred(parts[i])}
    IN  IF hits = {} THEN dflt
        ELSE IF parts[MinOf(hits)] = <<>> THEN dflt ELSE parts[MinOf(hits)]

\* String.prototype.replace(/x/g, y) for a literal pattern x
RECURSIVE replaceAll(_, _, _)
replaceAll(s, pat, rep) ==
    LET k == indexOf(s, pat)
    IN  IF k = -1 \/ Len(pat) = 0 THEN s
        ELSE cut(s, 1, k) \o rep \o replaceAll(cut(s, k + Len(pat) + 1, Len(s)), pat, rep)

DigitChar == <<"0", "1", "2", "3", "4", "5", "6", "7", "8", "9">>

\* `${n}` for a non-negative integer n
RECURSIVE numToString(_)
numToString(n) ==
    IF n < 10 THEN <<DigitChar[n + 1]>>
    ELSE numToString(n \div 10) \o <<DigitChar[(n % 10) + 1]>>

(***************************************************************************)
(* Keywords of the embed-token grammar.                                    *)
(***************************************************************************)

kCenter == <<"c", "e", "n", "t", "e", "r">>

kLeft == <<"l", "e", "f", "t">>

kRight == <<"r", "i", "g", "h", "t">>

kInline == <<"i", "n", "l", "i", "n", "e">>

kDark == <<"d", "a", "r", "k">>

Alignments == {kCenter, kLeft, kRight}

kOpen == <<"!", "[", "[">>

kClose == <<"]", "]">>

kPipe == <<"|">>

kHash == <<"#">>

(***************************************************************************)
(* The embed-token codec of ImageContextMenu.                              *)
(***************************************************************************)

\* link.startsWith("![[") && link.endsWith("]]")
isEmbedLink(lnk) == startsWith(lnk, kOpen) /\ endsWith(lnk, kClose)

\* link.slice(3, -2)
innerOf(lnk) == cut(lnk, 4, Len(lnk) - 2)

isAlignment(p) == p \in Alignments

\* `![[${baseImage}|dark|${position}|${size}]]` and its three shorter forms
pipeTemplate(baseImage, hasDark, position, size) ==
    kOpen \o baseImage
          \o (IF hasDark THEN kPipe \o kDark ELSE <<>>)
          \o kPipe \o position
          \o (IF size # <<>> THEN kPipe \o size ELSE <<>>)
          \o kClose

\* `${baseImage}#${position}#dark` or `${baseImage}#${position}`
hashPath(baseImage, position, hasDark) ==
    baseImage \o kHash \o position \o (IF hasDark THEN kHash \o kDark ELSE <<>>)

\* `![[${newImagePath}|${otherParts.join("|")}]]` or `![[${newImagePath}]]`
hashKeepTemplate(newImagePath, otherParts) ==
    IF Len(otherParts) > 0
    THEN kOpen \o newImagePath \o kPipe \o join(otherParts, kPipe) \o kClose
    ELSE kOpen \o newImagePath \o kClose

\* `![[${newImagePath}|${caption}|${size}]]` or `![[${newImagePath}|${caption}]]`
hashCaptionTemplate(newImagePath, caption, size) ==
    kOpen \o newImagePath \o kPipe \o caption
          \o (IF size # <<>> THEN kPipe \o size ELSE <<>>)
          \o kClose

\* an alignment rewrite that forgets the size segment of a pipe-form token
updateLinkAlignment_dropSize(lnk, alignment) ==
    IF ~isEmbedLink(lnk) THEN lnk
    ELSE
      LET parts == split(innerOf(lnk), "|")
          hasDark == \E i \in 1..Len(parts) : trim(parts[i]) = kDark
      IN  pipeTemplate(split(parts[1], "#")[1], hasDark, alignment, <<>>)

updateLinkAlignment(lnk, alignment) ==
    IF ~isEmbedLink(lnk) THEN lnk
    ELSE
      LET parts == split(innerOf(lnk), "|")
          imagePath == parts[1]
          hasHashSyntax == includes(imagePath, kHash)
      IN  IF hasHashSyntax
          THEN LET hashParts == split(imagePath, "#")
                   baseImage == hashParts[1]
                   hasDark == \E i \in 1..Len(hashParts) : hashParts[i] = kDark
               IN  hashKeepTemplate(hashPath(baseImage, alignment, hasDark), Tail(parts))
          ELSE LET baseImage == parts[1]
                   hasDark == \E i \in 1..Len(parts) : trim(parts[i]) = kDark
                   size == findOr(parts, LAMBDA p : isDigits(trim(p)), <<>>)
               IN  pipeTemplate(baseImage, hasDark, alignment, size)

updateLinkDarkMode(lnk, enableDark) ==
    IF ~isEmbedLink(lnk) THEN lnk
    ELSE
      LET parts == split(innerOf(lnk), "|")
          imagePath == parts[1]
          hasHashSyntax == includes(imagePath, kHash)
      IN  IF hasHashSyntax
          THEN LET hashParts == split(imagePath, "#")
                   baseImage == hashParts[1]
                   position == findOr(hashParts, isAlignment, kCenter)
               IN  hashKeepTemplate(hashPath(baseImage, position, enableDark), Tail(parts))
          ELSE LET baseImage == parts[1]
                   position == findOr(parts, LAMBDA p : isAlignment(trim(p)), kCenter)
                   size == findOr(parts, LAMBDA p : isDigits(trim(p)), <<>>)
               IN  pipeTemplate(baseImage, enableDark, position, size)

\* the first element of parts[from..] satisfying pred, trimmed, or ""
firstTrimmed(parts, from, pred(_)) ==
    LET hits == {i \in from..Len(parts) : pred(trim(parts[i]))}
    IN  IF hits = {} THEN <<>> ELSE trim(parts[MinOf(hits)])

extractCaptionFromLink(lnk) ==
    IF ~isEmbedLink(lnk) THEN <<>>
    ELSE
      LET parts == split(innerOf(lnk), "|")
      IN  IF Len(parts) < 2 THEN <<>>
          ELSE IF includes(parts[1], kHash)
          THEN firstTrimmed(parts, 2, LAMBDA p : ~isDigits(p))
          ELSE firstTrimmed(parts, 2,
                   LAMBDA p : p # kDark /\ ~isAlignment(p) /\ ~isDigits(p))

updateLinkCaptionOnly(lnk, caption) ==
    IF ~isEmbedLink(lnk) THEN lnk
    ELSE
      LET parts == split(innerOf(lnk), "|")
          imagePath == parts[1]
          hasHashSyntax == includes(imagePath, kHash)
      IN  IF hasHashSyntax
          THEN LET hashParts == split(imagePath, "#")
                   baseImage == hashParts[1]
                   position == findOr(hashParts, isAlignment, kCenter)
                   hasDark == \E i \in 1..Len(hashParts) : hashParts[i] = kDark
                   size == findOr(parts, LAMBDA p : isDigits(trim(p)), <<>>)
               IN  IF caption # <<>>
                   THEN hashCaptionTemplate(hashPath(baseImage, position, hasDark), caption, size)
                   ELSE pipeTemplate(baseImage, hasDark, position, size)
          ELSE LET baseImage == parts[1]
                   hasDark == \E i \in 1..Len(parts) : trim(parts[i]) = kDark
                   position == findOr(parts, LAMBDA p : isAlignment(trim(p)), kCenter)
                   size == findOr(parts, LAMBDA p : isDigits(trim(p)), <<>>)
               IN  IF caption # <<>>
                   THEN hashCaptionTemplate(hashPath(baseImage, position, hasDark), caption, size)
                   ELSE pipeTemplate(baseImage, hasDark, position, size)

\* toggleDarkMode: the flag it reads off the located token text
currentHasDark(fullMatch) ==
    \/ includes(fullMatch, kHash \o kDark)
    \/ includes(fullMatch, kPipe \o kDark \o kPipe)
    \/ includes(fullMatch, kPipe \o kDark \o <<"]">>)

(***************************************************************************)
(* ImagePickerModal.handleImageSelect: the token the picker inserts.       *)
(***************************************************************************)

\* a picker that forgets the dark flag of a captioned token
handleImageSelect_noDark(fileName, imagePosition, invertColor, imageCaption) ==
    IF imageCaption # <<>>
    THEN kOpen \o fileName \o kHash \o imagePosition \o kPipe \o imageCaption \o kClose
    ELSE IF invertColor
         THEN kOpen \o fileName \o kPipe \o kDark \o kPipe \o imagePosition \o kClose
         ELSE kOpen \o fileName \o kPipe \o imagePosition \o kClose

handleImageSelect(fileName, imagePosition, invertColor, imageCaption) ==
    IF imageCaption # <<>>
    THEN IF invertColor
         THEN kOpen \o fileName \o kHash \o imagePosition \o kHash \o kDark
                    \o kPipe \o imageCaption \o kClose
         ELSE kOpen \o fileName \o kHash \o imagePosition \o kPipe \o imageCaption \o kClose
    ELSE IF invertColor
         THEN kOpen \o fileName \o kPipe \o kDark \o kPipe \o imagePosition \o kClose
         ELSE kOpen \o fileName \o kPipe \o imagePosition \o kClose


(***************************************************************************)
(* LinkUpdateService.matchLineWithInternalLink: the size rewrite.          *)
(***************************************************************************)

kEscPipe == <<"\\", "|">>

isBracket(c) == c = "[" \/ c = "]"

\* /\!\[\[[^\[\]]*?\]\]/ tried at 0-based position i: the length matched, or 0
regWikiLinkAt(s, i) ==
    IF cut(s, i + 1, i + 3) # kOpen THEN 0
    ELSE LET br == {j \in (i + 4)..Len(s) : isBracket(s[j])}
         IN  IF br = {} THEN 0
             ELSE LET j == MinOf(br)
                  IN  IF s[j] = "]" /\ j + 1 <= Len(s) /\ s[j + 1] = "]"
                      THEN j + 1 - i
                      ELSE 0

\* in /[^\[\]\{\}']/
isMdUrlChar(c) == c \notin {"[", "]", "{", "}", "'"}

\* /\!\[[^\[\]]*?\]\(\s*[^\[\]\{\}']*\s*\)/ tried at 0-based position i
regMdLinkAt(s, i) ==
    IF cut(s, i + 1, i + 2) # <<"!", "[">> THEN 0
    ELSE LET br == {j \in (i + 3)..Len(s) : isBracket(s[j])}
         IN  IF br = {} THEN 0
             ELSE LET j == MinOf(br)
                      ends == {e \in (j + 2)..Len(s) :
                                  /\ s[e] = ")"
                                  /\ \A x \in (j + 2)..(e - 1) : isMdUrlChar(s[x])}
                  IN  IF s[j] = "]" /\ j + 1 <= Len(s) /\ s[j + 1] = "(" /\ ends # {}
                      THEN MaxOf(ends) - i
                      ELSE 0

\* RegExp.prototype.exec in a while loop with the g flag: every match, left to right;
\* each exec returns the leftmost match that starts at lastIndex (i) or later
RECURSIVE execAll(_, _, _)
execAll(matchAt(_, _), s, i) ==
    bind({k \in i..(Len(s) - 1) : matchAt(s, k) > 0}, LAMBDA starts :
        IF starts = {} THEN <<>>
        ELSE bind(MinOf(starts), LAMBDA k :
             bind(matchAt(s, k), LAMBDA n :
                 <<[index |-> k, text |-> cut(s, k + 1, k + n)]>> \o execAll(matchAt, s, k + n))))

\* the segments of alt_text.split('|') that are neither a size nor blank, each behind a '|'
RECURSIVE altTextWoSize(_)
altTextWoSize(alt_text_list) ==
    IF Len(alt_text_list) = 0 THEN <<>>
    ELSE LET alt == Head(alt_text_list)
         IN  (IF ~isDigits(alt) /\ ~isBlank(alt) THEN kPipe \o alt ELSE <<>>)
                 \o altTextWoSize(Tail(alt_text_list))

\* the new text of one matched ![[...]] link (lines 286-302)
newWikiLink(matched_link, target_name, new_width, intable) ==
    LET normal_link == IF intable THEN replaceAll(matched_link, kEscPipe, kPipe) ELSE matched_link
        nbody == innerOf(normal_link)
        nk == indexOf(nbody, kPipe)
        link_text == IF nk = -1 THEN nbody ELSE cut(nbody, 1, nk)
        mbody == innerOf(matched_link)
        mk == indexOf(mbody, kPipe)
        alt_text == IF mk = -1 THEN <<>> ELSE cut(mbody, mk + 1, Len(mbody))
        alt_text_wo_size == altTextWoSize(split(alt_text, "|"))
        new_alt_text == IF new_width # 0
                        THEN alt_text_wo_size \o kPipe \o numToString(new_width)
                        ELSE alt_text_wo_size
        escaped_alt_text == IF intable THEN replaceAll(new_alt_text, kPipe, kEscPipe)
                            ELSE new_alt_text
    IN  kOpen \o link_text \o escaped_alt_text \o kClose

\* t matches /^<prefix>\d+(\|\d+)?$/
isSizeSuffix(t, prefix) ==
    /\ startsWith(t, prefix)
    /\ LET segs == split(cut(t, Len(prefix) + 1, Len(t)), "|")
       IN  Len(segs) \in {1, 2} /\ \A i \in 1..Len(segs) : isDigits(segs[i])

\* alt_text.replace(/<prefix>\d+(\|\d+)?$/g, '')
stripSizeSuffix(alt_text, prefix) ==
    LET at == {k \in 0..Len(alt_text) : isSizeSuffix(cut(alt_text, k + 1, Len(alt_text)), prefix)}
    IN  IF at = {} THEN alt_text ELSE cut(alt_text, 1, MinOf(at))

\* the new text of one matched ![alt](url) link (lines 318-344)
newMdLink(matched_link, new_width, intable) ==
    LET close == MinOf({j \in 1..Len(matched_link) : matched_link[j] = "]"})
        alt_text == cut(matched_link, 3, close - 1)
        pure_alt == IF intable THEN stripSizeSuffix(alt_text, kEscPipe)
                    ELSE stripSizeSuffix(alt_text, kPipe)
        link_text == substring(matched_link, (close - 1) + 2, Len(matched_link) - 1)
        url == <<"]", "(">> \o link_text \o <<")">>
    IN  IF \A i \in 1..Len(alt_text) : alt_text[i] \in Digits
        THEN <<"!", "[">> \o numToString(new_width) \o url
        ELSE <<"!", "[">> \o pure_alt \o (IF intable THEN kEscPipe ELSE kPipe)
                          \o numToString(new_width) \o url

RECURSIVE wikiResults(_, _, _, _)
wikiResults(ms, target_name, new_width, intable) ==
    IF Len(ms) = 0 THEN <<>>
    ELSE LET m == Head(ms)
         IN  (IF includes(m.text, target_name)
              THEN <<[old_link |-> m.text,
                      new_link |-> newWikiLink(m.text, target_name, new_width, intable),
                      from_ch |-> m.index,
                      to_ch |-> m.index + Len(m.text)]>>
              ELSE <<>>) \o wikiResults(Tail(ms), target_name, new_width, intable)

RECURSIVE mdResults(_, _, _, _)
mdResults(ms, target_name_mdlink, new_width, intable) ==
    IF Len(ms) = 0 THEN <<>>
    ELSE LET m == Head(ms)
         IN  (IF includes(m.text, target_name_mdlink)
              THEN <<[old_link |-> m.text,
                      new_link |-> newMdLink(m.text, new_width, intable),
                      from_ch |-> m.index,
                      to_ch |-> m.index + Len(m.text)]>>
              ELSE <<>>) \o mdResults(Tail(ms), target_name_mdlink, new_width, intable)

matchLineWithInternalLink(line_text, target_name, new_width, intable) ==
    LET target_name_mdlink == replaceAll(target_name, <<" ">>, <<"%", "2", "0">>)
    IN  IF ~includes(line_text, target_name) /\ ~includes(line_text, target_name_mdlink)
        THEN <<>>
        ELSE wikiResults(execAll(regWikiLinkAt, line_text, 0), target_name, new_width, intable)
             \o mdResults(execAll(regMdLinkAt, line_text, 0), target_name_mdlink, new_width, intable)


(***************************************************************************)
(* Decoding: the fields the rewriters read off a token before rebuilding   *)
(* it (updateLinkCaptionOnly, lines 1013-1029 and 1045-1048), with the     *)
(* caption as extractCaptionFromLink reports it.                           *)
(***************************************************************************)

hasHashSyntax(lnk) == includes(split(innerOf(lnk), "|")[1], kHash)

decodeName(lnk) ==
    LET parts == split(innerOf(lnk), "|")
    IN  IF hasHashSyntax(lnk) THEN split(parts[1], "#")[1] ELSE parts[1]

decodePosition(lnk) ==
    LET parts == split(innerOf(lnk), "|")
    IN  IF hasHashSyntax(lnk)
        THEN findOr(split(parts[1], "#"), isAlignment, kCenter)
        ELSE trim(findOr(parts, LAMBDA p : isAlignment(trim(p)), kCenter))

decodeDark(lnk) ==
    LET parts == split(innerOf(lnk), "|")
    IN  IF hasHashSyntax(lnk)
        THEN \E i \in 1..Len(split(parts[1], "#")) : split(parts[1], "#")[i] = kDark
        ELSE \E i \in 1..Len(parts) : trim(parts[i]) = kDark

decodeSize(lnk) ==
    trim(findOr(split(innerOf(lnk), "|"), LAMBDA p : isDigits(trim(p)), <<>>))

decodeToken(lnk) ==
    [name |-> decodeName(lnk),
     alignment |-> decodePosition(lnk),
     darkMode |-> decodeDark(lnk),
     caption |-> extractCaptionFromLink(lnk),
     size |-> decodeSize(lnk)]

(***************************************************************************)
(* More JavaScript primitives: toLowerCase, decodeURIComponent and         *)
(* String.prototype.replace with a string pattern.                         *)
(***************************************************************************)

Upper == <<"A", "B", "C", "D", "E", "F", "G", "H", "I", "J", "K", "L", "M", "N", "O", "P", "Q", "R", "S", "T", "U", "V", "W", "X", "Y", "Z">>

Lower == <<"a", "b", "c", "d", "e", "f", "g", "h", "i", "j", "k", "l", "m", "n", "o", "p", "q", "r", "s", "t", "u", "v", "w", "x", "y", "z">>

lowerChar(c) ==
    IF \E i \in 1..Len(Upper) : Upper[i] = c
    THEN Lower[CHOOSE i \in 1..Len(Upper) : Upper[i] = c]
    ELSE c

RECURSIVE toLowerCase(_)
toLowerCase(s) ==
    IF s = <<>> THEN <<>> ELSE <<lowerChar(Head(s))>> \o toLowerCase(Tail(s))

\* the character U+0060, which a string of this notation cannot hold
kBackquote == "U+0060"

\* the characters U+0020 .. U+007E, in code order
Ascii == <<" ", "!", "\"", "#", "$", "%", "&", "'", "(", ")", "*", "+", ",", "-", ".", "/", "0", "1", "2", "3", "4", "5", "6", "7", "8", "9", ":", ";", "<", "=", ">", "?", "@", "A", "B", "C", "D", "E", "F", "G", "H", "I", "J", "K", "L", "M", "N", "O", "P", "Q", "R", "S", "T", "U", "V", "W", "X", "Y", "Z", "[", "\\", "]", "^", "_", kBackquote, "a", "b", "c", "d", "e", "f", "g", "h", "i", "j", "k", "l", "m", "n", "o", "p", "q", "r", "s", "t", "u", "v", "w", "x", "y", "z", "{", "|", "}", "~">>

HexDigits == <<"0", "1", "2", "3", "4", "5", "6", "7", "8", "9", "A", "B", "C", "D", "E", "F">>

isHex(c) == \E i \in 1..Len(HexDigits) : toLowerCase(<<HexDigits[i]>>) = toLowerCase(<<c>>)

hexVal(c) == (CHOOSE i \in 1..Len(HexDigits) : toLowerCase(<<HexDigits[i]>>) = toLowerCase(<<c>>)) - 1

\* decodeURIComponent: [ok, text]; ok = FALSE stands for the URIError it throws on a '%'
\* that does not start an escape.  Escapes outside U+0020 .. U+007E (control characters
\* and multi-byte sequences) do not occur in the documents of the model.
RECURSIVE decodeURIComponent(_)
decodeURIComponent(s) ==
    IF s = <<>> THEN [ok |-> TRUE, text |-> <<>>]
    ELSE IF Head(s) # "%"
    THEN LET rest == decodeURIComponent(Tail(s))
         IN  [ok |-> rest.ok, text |-> <<Head(s)>> \o rest.text]
    ELSE IF Len(s) < 3 \/ ~isHex(s[2]) \/ ~isHex(s[3])
    THEN [ok |-> FALSE, text |-> <<>>]
    ELSE LET code == 16 * hexVal(s[2]) + hexVal(s[3])
             rest == decodeURIComponent(cut(s, 4, Len(s)))
         IN  IF code < 32 \/ code > 126
             THEN [ok |-> FALSE, text |-> <<>>]
             ELSE [ok |-> rest.ok, text |-> <<Ascii[code - 31]>> \o rest.text]

\* the replacement patterns of String.prototype.replace: $$, $&, $` and $'
RECURSIVE expandReplacement(_, _, _, _)
expandReplacement(rep, matched, before, after) ==
    IF rep = <<>> THEN <<>>
    ELSE IF Head(rep) = "$" /\ Len(rep) >= 2 /\ rep[2] \in {"$", "&", kBackquote, "'"}
    THEN (CASE rep[2] = "$" -> <<"$">>
            [] rep[2] = "&" -> matched
            [] rep[2] = kBackquote -> before
            [] OTHER -> after)
             \o expandReplacement(cut(rep, 3, Len(rep)), matched, before, after)
    ELSE <<Head(rep)>> \o expandReplacement(Tail(rep), matched, before, after)

\* line.replace(pattern, replacement) with a string pattern: the first occurrence only
replace(s, pattern, replacement) ==
    LET k == indexOf(s, pattern)
        before == cut(s, 1, k)
        after == cut(s, k + Len(pattern) + 1, Len(s))
    IN  IF k = -1 THEN s
        ELSE before \o expandReplacement(replacement, pattern, before, after) \o after


(***************************************************************************)
(* ImageContextMenu: the locator (findImageMatches) and the disambiguator  *)
(* (findSingleImageMatch).  Line numbers are 0-based, as editor.getLine.   *)
(***************************************************************************)

\* editor.getLine(n)
getLine(lines, n) == lines[n + 1]

\* path.split('/').pop()
lastSegment(path) ==
    LET segs == split(path, "/")
    IN  segs[Len(segs)]

\* name.replace(/\.[^.]+$/, '')
stripExtension(name) ==
    LET dots == {i \in 1..Len(name) : name[i] = "."}
    IN  IF dots = {} \/ MaxOf(dots) = Len(name) THEN name
        ELSE cut(name, 1, MaxOf(dots) - 1)

\* /!\[\[([^\]|]+)(?:\|[^\]]+?)?\]\]/ tried at 0-based position i: the length matched, or 0
wikiRegexAt(s, i) ==
    IF cut(s, i + 1, i + 3) # kOpen THEN 0
    ELSE LET stop == {j \in (i + 4)..Len(s) : s[j] = "]" \/ s[j] = "|"}
         IN  IF stop = {} \/ MinOf(stop) = i + 4 THEN 0
             ELSE LET j == MinOf(stop)
                      close == {e \in (j + 1)..Len(s) : s[e] = "]"}
                  IN  IF s[j] = "]"
                      THEN IF j + 1 <= Len(s) /\ s[j + 1] = "]" THEN j + 1 - i ELSE 0
                      ELSE IF close = {} THEN 0
                      ELSE LET e == MinOf(close)
                           IN  IF e >= j + 2 /\ e + 1 <= Len(s) /\ s[e + 1] = "]"
                               THEN e + 1 - i
                               ELSE 0

\* match[1] of wikiRegex: the text after '![[' up to the first ']' or '|'
wikiLinkPath(fullMatch) ==
    LET stop == {j \in 4..Len(fullMatch) : fullMatch[j] = "]" \/ fullMatch[j] = "|"}
    IN  cut(fullMatch, 4, MinOf(stop) - 1)

\* /!\[([^\]]*)\]\(([^)]+)\)/ tried at 0-based position i: the length matched, or 0
mdRegexAt(s, i) ==
    IF cut(s, i + 1, i + 2) # <<"!", "[">> THEN 0
    ELSE LET close == {j \in (i + 3)..Len(s) : s[j] = "]"}
         IN  IF close = {} THEN 0
             ELSE LET j == MinOf(close)
                      paren == {e \in (j + 2)..Len(s) : s[e] = ")"}
                  IN  IF j + 1 > Len(s) \/ s[j + 1] # "(" \/ paren = {} THEN 0
                      ELSE IF MinOf(paren) < j + 3 THEN 0
                      ELSE MinOf(paren) - i

\* match[2] of mdRegex: the text between '](' and the closing ')'
mdLinkUrl(fullMatch) ==
    LET j == MinOf({k \in 3..Len(fullMatch) : fullMatch[k] = "]"})
    IN  cut(fullMatch, j + 2, Len(fullMatch) - 1)

\* the test both loops apply to a link path (lines 723-725 and 738-740)
linkMatches(linkPath, imagePath) ==
    LET fileName == toLowerCase(lastSegment(imagePath))
        baseName == stripExtension(fileName)
        linkFileName == toLowerCase(lastSegment(linkPath))
        linkBaseName == stripExtension(linkFileName)
    IN  \/ linkFileName = fileName
        \/ linkBaseName = baseName
        \/ toLowerCase(linkPath) = toLowerCase(imagePath)

\* the matches pushed by the wikiRegex loop on line i
RECURSIVE wikiMatches(_, _, _)
wikiMatches(ms, i, imagePath) ==
    IF ms = <<>> THEN <<>>
    ELSE (IF linkMatches(trim(wikiLinkPath(Head(ms).text)), imagePath)
          THEN <<[lineNumber |-> i, fullMatch |-> Head(ms).text]>>
          ELSE <<>>) \o wikiMatches(Tail(ms), i, imagePath)

\* the matches pushed by the mdRegex loop on line i
RECURSIVE mdMatches(_, _, _)
mdMatches(ms, i, imagePath) ==
    IF ms = <<>> THEN <<>>
    ELSE (IF linkMatches(decodeURIComponent(trim(mdLinkUrl(Head(ms).text))).text, imagePath)
          THEN <<[lineNumber |-> i, fullMatch |-> Head(ms).text]>>
          ELSE <<>>) \o mdMatches(Tail(ms), i, imagePath)

\* decodeURIComponent throws on one of the image-markup links of the line
lineThrows(line) ==
    LET ms == execAll(mdRegexAt, line, 0)
    IN  \E k \in 1..Len(ms) : ~decodeURIComponent(trim(mdLinkUrl(ms[k].text))).ok

\* the matches of lines i.. (0-based), line by line
RECURSIVE matchesFrom(_, _, _)
matchesFrom(lines, i, imagePath) ==
    IF i >= Len(lines) THEN <<>>
    ELSE LET line == getLine(lines, i)
         IN  (IF ~includes(line, <<"!", "[">>) THEN <<>>
              ELSE wikiMatches(execAll(wikiRegexAt, line, 0), i, imagePath)
                   \o mdMatches(execAll(mdRegexAt, line, 0), i, imagePath))
                 \o matchesFrom(lines, i + 1, imagePath)

\* [threw, matches]: threw = TRUE when the scan ends in the URIError of decodeURIComponent,
\* which rejects the promise of the calling handler
findImageMatches(lines, imagePath) ==
    IF \E i \in 0..(Len(lines) - 1) : lineThrows(getLine(lines, i))
    THEN [threw |-> TRUE, matches |-> <<>>]
    ELSE [threw |-> FALSE, matches |-> matchesFrom(lines, 0, imagePath)]

\* editorView.posAtDOM is missing, returns null or throws: no target line
NoHint == -1

abs(n) == IF n < 0 THEN 0 - n ELSE n

\* the "closest line" loop (lines 671-680): the index of closestMatch after matches[k..]
RECURSIVE closestIndex(_, _, _, _)
closestIndex(matches, targetLine, k, best) ==
    IF k > Len(matches) THEN best
    ELSE IF abs(matches[k].lineNumber - targetLine) < abs(matches[best].lineNumber - targetLine)
    THEN closestIndex(matches, targetLine, k + 1, k)
    ELSE closestIndex(matches, targetLine, k + 1, best)

\* a disambiguator that ignores the position and takes the first match
findSingleImageMatch_firstOnly(matches, targetLine) ==
    IF Len(matches) = 0
    THEN [found |-> FALSE, match |-> [lineNumber |-> -1, fullMatch |-> <<>>], how |-> "none"]
    ELSE [found |-> TRUE, match |-> matches[1], how |-> "fallback"]

\* [found, match, how]: how names the return statement taken
findSingleImageMatch(matches, targetLine) ==
    LET none == [lineNumber |-> -1, fullMatch |-> <<>>]
        onLine == {k \in 1..Len(matches) : matches[k].lineNumber = targetLine}
        closest == closestIndex(matches, targetLine, 1, 1)
    IN  IF Len(matches) = 0 THEN [found |-> FALSE, match |-> none, how |-> "none"]
        ELSE IF Len(matches) = 1 THEN [found |-> TRUE, match |-> matches[1], how |-> "single"]
        ELSE IF targetLine # NoHint /\ onLine # {}
        THEN [found |-> TRUE, match |-> matches[MinOf(onLine)], how |-> "exact"]
        ELSE IF targetLine # NoHint /\ abs(matches[closest].lineNumber - targetLine) <= 5
        THEN [found |-> TRUE, match |-> matches[closest], how |-> "closest"]
        ELSE [found |-> TRUE, match |-> matches[1], how |-> "fallback"]


(***************************************************************************)
(* ImageContextMenu: the handlers of the context menu, as functions from   *)
(* the document (a sequence of lines) to the document they leave and the   *)
(* Notices they raise.  The active view is a Markdown view.                *)
(***************************************************************************)

\* getImagePath returned null
NoPath == <<>>

NoticeNoPath == "cannot resolve image path"

NoticeNotFound == "image link not found"

NoticeAligned == "alignment set"

NoticeDarkOn == "dark mode on"

NoticeDarkOff == "dark mode off"

NoticeCaptionUpdated == "caption updated"

NoticeCaptionDeleted == "caption deleted"

NoticeLinkDeleted == "link deleted"

\* editor.setLine(n, text)
setLine(lines, n, text) == [lines EXCEPT ![n + 1] = text]

\* what a handler reports: the document and Notices it leaves, and what it located
outcome(lines, ns, fm, pick, newLink) ==
    [doc |-> lines, notices |-> ns, threw |-> fm.threw, matches |-> fm.matches,
     found |-> pick.found, how |-> pick.how, lineNumber |-> pick.match.lineNumber,
     fullMatch |-> pick.match.fullMatch, newLink |-> newLink]

NoMatches == [threw |-> FALSE, matches |-> <<>>]

\* nothing was located
NoPick == [found |-> FALSE, match |-> [lineNumber |-> -1, fullMatch |-> <<>>], how |-> "none"]

updateAlignment(lines, imagePath, targetLine, alignment) ==
    IF imagePath = NoPath THEN outcome(lines, <<NoticeNoPath>>, NoMatches, NoPick, <<>>)
    ELSE
    bind(findImageMatches(lines, imagePath), LAMBDA fm :
    bind(findSingleImageMatch(fm.matches, targetLine), LAMBDA pick :
        IF fm.threw THEN outcome(lines, <<>>, fm, NoPick, <<>>)
        ELSE IF ~pick.found THEN outcome(lines, <<NoticeNotFound>>, fm, pick, <<>>)
        ELSE bind(updateLinkAlignment(pick.match.fullMatch, alignment), LAMBDA newLink :
                 LET line == getLine(lines, pick.match.lineNumber)
                     newLine == replace(line, pick.match.fullMatch, newLink)
                 IN  outcome(setLine(lines, pick.match.lineNumber, newLine),
                             <<NoticeAligned>>, fm, pick, newLink))))

toggleDarkMode(lines, imagePath, targetLine) ==
    IF imagePath = NoPath THEN outcome(lines, <<NoticeNoPath>>, NoMatches, NoPick, <<>>)
    ELSE
    bind(findImageMatches(lines, imagePath), LAMBDA fm :
    bind(findSingleImageMatch(fm.matches, targetLine), LAMBDA pick :
        IF fm.threw THEN outcome(lines, <<>>, fm, NoPick, <<>>)
        ELSE IF ~pick.found THEN outcome(lines, <<NoticeNotFound>>, fm, pick, <<>>)
        ELSE bind(currentHasDark(pick.match.fullMatch), LAMBDA hasDark :
             bind(updateLinkDarkMode(pick.match.fullMatch, ~hasDark), LAMBDA newLink :
                 LET line == getLine(lines, pick.match.lineNumber)
                     newLine == replace(line, pick.match.fullMatch, newLink)
                 IN  outcome(setLine(lines, pick.match.lineNumber, newLine),
                             <<IF hasDark THEN NoticeDarkOff ELSE NoticeDarkOn>>,
                             fm, pick, newLink)))))

\* editor.replaceRange("", {line: n, ch: 0}, {line: n + 1, ch: 0}): line n goes with its
\* line break; on the last line the end position is clipped and the line is left empty
removeLine(lines, n) ==
    IF n + 1 = Len(lines) THEN setLine(lines, n, <<>>)
    ELSE cut(lines, 1, n) \o cut(lines, n + 2, Len(lines))

removeImageLink(lines, match) ==
    LET line == getLine(lines, match.lineNumber)
        before == substring(line, 0, indexOf(line, match.fullMatch))
        after == substring(line, indexOf(line, match.fullMatch) + Len(match.fullMatch), Len(line))
    IN  IF trim(line) = trim(match.fullMatch)
        THEN removeLine(lines, match.lineNumber)
        ELSE setLine(lines, match.lineNumber, before \o after)

\* the onClick handler of the "delete link" menu item (lines 475-498)
deleteLink(lines, imagePath, targetLine) ==
    IF imagePath = NoPath THEN outcome(lines, <<NoticeNoPath>>, NoMatches, NoPick, <<>>)
    ELSE
    bind(findImageMatches(lines, imagePath), LAMBDA fm :
    bind(findSingleImageMatch(fm.matches, targetLine), LAMBDA pick :
        IF fm.threw THEN outcome(lines, <<>>, fm, NoPick, <<>>)
        ELSE IF ~pick.found THEN outcome(lines, <<NoticeNotFound>>, fm, pick, <<>>)
        ELSE outcome(removeImageLink(lines, pick.match), <<NoticeLinkDeleted>>,
                     fm, pick, <<>>)))

\* editCaption up to the point where the input box is shown (lines 841-900); the image
\* sits in an .image-embed container
editCaption(lines, imagePath, targetLine) ==
    IF imagePath = NoPath THEN outcome(lines, <<NoticeNoPath>>, NoMatches, NoPick, <<>>)
    ELSE
    bind(findImageMatches(lines, imagePath), LAMBDA fm :
    bind(findSingleImageMatch(fm.matches, targetLine), LAMBDA pick :
        IF fm.threw THEN outcome(lines, <<>>, fm, NoPick, <<>>)
        ELSE IF ~pick.found THEN outcome(lines, <<NoticeNotFound>>, fm, pick, <<>>)
        ELSE outcome(lines, <<>>, fm, pick, <<>>)))

\* handleInput(true) of a caption session on match (lines 904-925); editor.getLine throws
\* for a line the document no longer has
handleInputSave(lines, match, value) ==
    bind(trim(value), LAMBDA newCaption :
    bind(updateLinkCaptionOnly(match.fullMatch, newCaption), LAMBDA newLink :
    LET line == getLine(lines, match.lineNumber)
        newLine == replace(line, match.fullMatch, newLink)
    IN  IF match.lineNumber >= Len(lines)
        THEN [doc |-> lines, notices |-> <<>>, newLink |-> newLink, threw |-> TRUE]
        ELSE [doc |-> setLine(lines, match.lineNumber, newLine),
              notices |-> <<IF newCaption # <<>> THEN NoticeCaptionUpdated
                            ELSE NoticeCaptionDeleted>>,
              newLink |-> newLink, threw |-> FALSE]))

\* no caption input box has been opened
NoSession ==
    [active |-> FALSE, match |-> [lineNumber |-> -1, fullMatch |-> <<>>],
     currentCaption |-> <<>>, isHandling |-> FALSE, attached |-> FALSE]

\* handleInput(save) of the session s (lines 902-934): isHandling lets it run once; a
\* save writes the line and raises its Notice, then the input box is removed, unless
\* editor.getLine has thrown.  Once the box is removed nothing reads the match again.
handleInput(s, lines, save, value) ==
    IF s.isHandling
    THEN [session |-> s, doc |-> lines, notices |-> <<>>, newLink |-> <<>>, ran |-> FALSE]
    ELSE IF save
    THEN LET o == handleInputSave(lines, s.match, value)
         IN  [session |-> IF o.threw THEN [s EXCEPT !.isHandling = TRUE]
                          ELSE [NoSession EXCEPT !.active = TRUE, !.isHandling = TRUE],
              doc |-> o.doc, notices |-> o.notices, newLink |-> o.newLink, ran |-> TRUE]
    ELSE [session |-> [NoSession EXCEPT !.active = TRUE, !.isHandling = TRUE],
          doc |-> lines, notices |-> <<>>, newLink |-> <<>>, ran |-> TRUE]


(***************************************************************************)
(* LinkUpdateService.updateInternalLink: the size rewrite in the document. *)
(* Line numbers are 1-based here, as editorView.state.doc.line.            *)
(***************************************************************************)

NoticeLineMultiple == "several links to the image on the line"

NoticeBlockNotFound(mode) ==
    IF mode = "table" THEN "link not found in table" ELSE "link not found in callout"

NoticeBlockMultiple(mode) ==
    IF mode = "table" THEN "several links to the image in table"
    ELSE "several links to the image in callout"

\* startReg[mode].test(text): /^\s*\|/ for a table, /^>/ for a callout
startReg(mode, text) ==
    IF mode = "table"
    THEN \E k \in 1..Len(text) : text[k] = "|" /\ \A x \in 1..(k - 1) : isSpace(text[x])
    ELSE Len(text) >= 1 /\ text[1] = ">"

\* the lines the downward loop visits before its break (lines 112-119)
RECURSIVE searchDown(_, _, _)
searchDown(lines, i, mode) ==
    IF i > Len(lines) THEN <<>>
    ELSE IF ~startReg(mode, lines[i]) THEN <<>>
    ELSE <<i>> \o searchDown(lines, i + 1, mode)

\* the lines the upward loop visits before its break (lines 122-129)
RECURSIVE searchUp(_, _, _)
searchUp(lines, i, mode) ==
    IF i < 1 THEN <<>>
    ELSE IF ~startReg(mode, lines[i]) THEN <<>>
    ELSE <<i>> \o searchUp(lines, i - 1, mode)

\* matched_results and matched_lines, over the visited lines in visiting order
RECURSIVE collectMatched(_, _, _, _, _)
collectMatched(lines, visited, imageName, newWidth, inTable) ==
    IF visited = <<>> THEN <<>>
    ELSE bind(matchLineWithInternalLink(lines[Head(visited)], imageName, newWidth, inTable),
              LAMBDA matched :
                 [k \in 1..Len(matched) |-> [result |-> matched[k], line |-> Head(visited)]]
                     \o collectMatched(lines, Tail(visited), imageName, newWidth, inTable))

\* the dispatched change: characters from_ch..to_ch of the line replaced by new_link
spliceLine(text, m) ==
    substring(text, 0, m.from_ch) \o m.new_link \o substring(text, m.to_ch, Len(text))

sizeOutcome(lines, ns, mode, visited, matched) ==
    [doc |-> lines, notices |-> ns, mode |-> mode, searched |-> visited, matched |-> matched]

updateInternalLink(lines, target_line, imageName, newWidth, inTable, inCallout) ==
    LET mode == IF inTable THEN "table" ELSE "callout"
    IN  IF ~inCallout /\ ~inTable
        THEN bind(collectMatched(lines, <<target_line>>, imageName, newWidth, inTable),
                  LAMBDA matched :
                 IF Len(matched) = 1
                 THEN sizeOutcome([lines EXCEPT ![target_line] = spliceLine(@, matched[1].result)],
                                  <<>>, "line", <<target_line>>, matched)
                 ELSE IF Len(matched) = 0
                 THEN sizeOutcome(lines, <<>>, "line", <<target_line>>, matched)
                 ELSE sizeOutcome(lines, <<NoticeLineMultiple>>, "line", <<target_line>>, matched))
        ELSE bind(searchDown(lines, target_line, mode) \o searchUp(lines, target_line - 1, mode),
                  LAMBDA visited :
             bind(collectMatched(lines, visited, imageName, newWidth, inTable),
                  LAMBDA matched :
                 IF Len(matched) = 1
                 THEN sizeOutcome([lines EXCEPT ![matched[1].line] = spliceLine(@, matched[1].result)],
                                  <<>>, mode, visited, matched)
                 ELSE IF Len(matched) = 0
                 THEN sizeOutcome(lines, <<NoticeBlockNotFound(mode)>>, mode, visited, matched)
                 ELSE sizeOutcome(lines, <<NoticeBlockMultiple(mode)>>, mode, visited, matched)))


(***************************************************************************)
(* The state of the document-level specification, idle in the codec one.   *)
(***************************************************************************)

\* the reference and drag state while a text specification runs
RefIdle ==
    /\ referenceCache = <<>>
    /\ backlinks = <<>>
    /\ calls = <<>>
    /\ queryCount = <<>>
    /\ svcStep = <<>>
    /\ view = <<>>
    /\ vault = <<>>
    /\ refOps = 0
    /\ drag = <<>>

NoCall ==
    [op |-> "none", target |-> <<>>, hint |-> NoHint, value |-> <<>>, before |-> <<>>,
     threw |-> FALSE, matches |-> <<>>, found |-> FALSE, how |-> "none",
     lineNumber |-> -1, fullMatch |-> <<>>, newLink |-> <<>>,
     mode |-> "none", anchor |-> 0, width |-> 0, inTable |-> FALSE, inCallout |-> FALSE,
     searched |-> <<>>, matched |-> <<>>, atLocate |-> <<>>]


(***************************************************************************)
(* SpecCodec: one embed token and the operations that rewrite it.          *)
(***************************************************************************)

\* the longest token text an in-table size rewrite may produce in the codec
\* specification (each in-table rewrite of an escaped token adds a backslash)
MaxTableLinkLen == 24

FileName == <<"n", ".", "p", "n", "g">>

cCap == <<"c", "a", "p">>

\* a caption with display math, $$x$$
cMath == <<"$", "$", "x", "$", "$">>

cDigits == <<"7">>

cPadded == <<" ", "x">>

cPiped == <<"a", "|", "b">>

\* what the picker's caption box may hold (its value is used as typed)
PickerCaptions == {<<>>, cCap, cDigits, cPadded, cPiped, kDark}

\* what the caption editor passes on (input.value.trim())
EditCaptions == {<<>>, cCap, cDigits, cPiped}

PickerPositions == {kCenter, kLeft, kRight, kInline}

Widths == {300, 350}

\* hand-written tokens a document may hold before any operation
SeedLinks ==
    { kOpen \o FileName \o kClose,
      kOpen \o FileName \o kPipe \o <<"3", "0", "0">> \o kClose,
      kOpen \o FileName \o kPipe \o <<" ">> \o kLeft \o <<" ">> \o kClose,
      kOpen \o FileName \o kPipe \o <<"a", "l", "t">> \o kPipe \o kLeft \o kClose,
      kOpen \o FileName \o kHash \o kCenter \o kClose,
      kOpen \o FileName \o kEscPipe \o kLeft \o kClose }

NoArg == [position |-> <<>>, dark |-> FALSE, caption |-> <<>>, width |-> 0, intable |-> FALSE]

\* the src attribute of the rendered embed: the link path of the token
embedSrc(lnk) ==
    LET first == split(innerOf(lnk), "|")[1]
    IN  IF endsWith(first, <<"\\">>) THEN cut(first, 1, Len(first) - 1) ELSE first

\* <<>>: the cursor sits where no token has been inserted yet
CodecInit ==
    /\ link \in SeedLinks \cup {<<>>}
    /\ prevLink = <<>>
    /\ lastOp = [kind |-> "seed", arg |-> NoArg]
    /\ doc = <<>>
    /\ notices = <<>>
    /\ call = NoCall
    /\ session = NoSession
    /\ opCount = 0
    /\ RefIdle

PickerInsert(pos, inv, cap) ==
    /\ link = <<>>
    /\ link' = handleImageSelect(FileName, pos, inv, cap)
    /\ prevLink' = <<>>
    /\ lastOp' = [kind |-> "insert",
                  arg |-> [NoArg EXCEPT !.position = pos, !.dark = inv, !.caption = cap]]
    /\ UNCHANGED <<editVars, refVars, dragVars>>

SetAlignment(a) ==
    /\ link # <<>>
    /\ link' = updateLinkAlignment(link, a)
    /\ prevLink' = link
    /\ lastOp' = [kind |-> "alignment", arg |-> [NoArg EXCEPT !.position = a]]
    /\ UNCHANGED <<editVars, refVars, dragVars>>

ToggleDark ==
    /\ link # <<>>
    /\ link' = updateLinkDarkMode(link, ~currentHasDark(link))
    /\ prevLink' = link
    /\ lastOp' = [kind |-> "dark", arg |-> [NoArg EXCEPT !.dark = ~currentHasDark(link)]]
    /\ UNCHANGED <<editVars, refVars, dragVars>>

SetCaption(c) ==
    /\ link # <<>>
    /\ link' = updateLinkCaptionOnly(link, c)
    /\ prevLink' = link
    /\ lastOp' = [kind |-> "caption", arg |-> [NoArg EXCEPT !.caption = c]]
    /\ UNCHANGED <<editVars, refVars, dragVars>>

Resize(w, intable) ==
    LET matched == matchLineWithInternalLink(link, embedSrc(link), w, intable)
    IN  /\ Len(matched) = 1
        /\ intable => Len(matched[1].new_link) <= MaxTableLinkLen
        /\ link' = matched[1].new_link
        /\ prevLink' = link
        /\ lastOp' = [kind |-> "size", arg |-> [NoArg EXCEPT !.width = w, !.intable = intable]]
        /\ UNCHANGED <<editVars, refVars, dragVars>>

CodecNext ==
    \/ \E pos \in PickerPositions, inv \in BOOLEAN, cap \in PickerCaptions :
           PickerInsert(pos, inv, cap)
    \/ \E a \in Alignments : SetAlignment(a)
    \/ ToggleDark
    \/ \E c \in EditCaptions : SetCaption(c)
    \/ \E w \in Widths, intable \in BOOLEAN : Resize(w, intable)

SpecCodec == CodecInit /\ [][CodecNext]_vars


(***************************************************************************)
(* Claims about the codec, stated over SpecCodec.                         *)
(***************************************************************************)

\* a caption the token grammar can carry: no '|', no surrounding blanks, not all digits
LegalCaption(c) == c = <<>> \/ (trim(c) = c /\ ~includes(c, kPipe) /\ ~isDigits(c))

\* the fields of the token the picker was asked for, with the given size
pickedToken(arg, size) ==
    [name |-> FileName, alignment |-> arg.position, darkMode |-> arg.dark,
     caption |-> arg.caption, size |-> size]

\* the round trip for the token lastOp's picker arguments describe
RoundTripOfInsert ==
    (lastOp.kind = "insert" /\ lastOp.arg.position \in Alignments)
        => decodeToken(link) = pickedToken(lastOp.arg, <<>>)

\* the round trip for a picker token (p, d, c) that the size rewrite then sized, outside a table
RoundTripOfSized(p, d, c) ==
    (/\ lastOp.kind = "size"
     /\ ~lastOp.arg.intable
     /\ prevLink = handleImageSelect(FileName, p, d, c))
        => decodeToken(link) = [name |-> FileName, alignment |-> p, darkMode |-> d,
                                caption |-> c, size |-> numToString(lastOp.arg.width)]

IsRewrite ==
    /\ lastOp.kind \in {"alignment", "dark", "caption", "size"}
    /\ LegalCaption(lastOp.arg.caption)

\* C2: after every rewrite operation (with a caption value the grammar can carry) the
\* token written back is in hash form if and only if its caption is present and
\* non-empty, and in pipe form otherwise.
C2_EncodingSelection ==
    IsRewrite => (hasHashSyntax(link) <=> extractCaptionFromLink(link) # <<>>)

\* C3: after a single-field update with value v (a caption the grammar can carry; the
\* size rewrite taken outside a table) the token decodes to v in the updated
\* field and to the values of the token before the update in every other field.
C3_PartialUpdateIsolation ==
    LET old == decodeToken(prevLink)
        new == decodeToken(link)
    IN  (IsRewrite /\ ~lastOp.arg.intable) =>
            /\ lastOp.kind = "alignment" => new = [old EXCEPT !.alignment = lastOp.arg.position]
            /\ lastOp.kind = "dark" => new = [old EXCEPT !.darkMode = lastOp.arg.dark]
            /\ lastOp.kind = "caption" => new = [old EXCEPT !.caption = lastOp.arg.caption]
            /\ lastOp.kind = "size" => new = [old EXCEPT !.size = numToString(lastOp.arg.width)]

SameLayout(a, b) ==
    /\ decodePosition(a) = decodePosition(b)
    /\ decodeDark(a) = decodeDark(b)
    /\ decodeSize(a) = decodeSize(b)

\* C4: setting a non-empty caption (one the grammar can carry) on a pipe-form token yields a hash-form token, and
\* clearing the caption of a hash-form token yields a pipe-form token, each with the
\* alignment, dark flag and size of the token before.
C4_CaptionConversion ==
    (IsRewrite /\ lastOp.kind = "caption") =>
        /\ (~hasHashSyntax(prevLink) /\ lastOp.arg.caption # <<>>)
               => (hasHashSyntax(link) /\ SameLayout(prevLink, link))
        /\ (hasHashSyntax(prevLink) /\ lastOp.arg.caption = <<>>)
               => (~hasHashSyntax(link) /\ SameLayout(prevLink, link))


(***************************************************************************)
(* SpecEdit: a document, the context-menu handlers, the caption session    *)
(* and the size rewrite acting on it.                                      *)
(***************************************************************************)

\* the number of handler invocations followed from a seed document
MaxOps == 1

\* the vault path getImagePath resolves the rendered image to
ImagePath == <<"i", "m", "g", "/", "p", "h", "o", "t", "o", ".", "p", "n", "g">>

\* a vault path no link of the documents refers to
OtherPath == <<"z", ".", "p", "n", "g">>

Targets == {ImagePath, OtherPath, NoPath}

\* the src attribute of the .internal-embed element of the dragged image
ImageNames == {<<"p", "h", "o", "t", "o", ".", "p", "n", "g">>, <<"z", ".", "p", "n", "g">>}

DragWidths == {350}

\* what the caption input may hold when it is saved
InputValues == {<<>>, cCap, cMath}

DocExample == <<<<"S", "o", "m", "e", " ", "t", "e", "x", "t", " ", "!", "[", "[", "p", "h", "o", "t", "o", ".", "p", "n", "g", "|", "d", "a", "r", "k", "|", "l", "e", "f", "t", "|", "3", "0", "0", "]", "]", " ", "m", "o", "r", "e", " ", "t", "e", "x", "t">>>>

DocLocator ==
    <<<<"!", "[", "a", "]", "(", "i", "m", "g", "/", "p", "h", "o", "t", "o", ".", "p", "n", "g", ")", " ", "!", "[", "[", "p", "h", "o", "t", "o", ".", "p", "n", "g", "]", "]">>,
      <<"x", " ", "!", "[", "[", "I", "M", "G", "/", "P", "h", "o", "t", "o", ".", "P", "N", "G", "|", "l", "e", "f", "t", "]", "]", " ", "!", "[", "[", "p", "h", "o", "t", "o", ".", "p", "n", "g", "#", "r", "i", "g", "h", "t", "|", "c", "a", "p", "]", "]">>,
      <<"!", "[", "[", "o", "t", "h", "e", "r", ".", "p", "n", "g", "]", "]", " ", "!", "[", "b", "]", "(", "i", "m", "g", "/", "p", "h", "o", "t", "o", "%", "2", "E", "p", "n", "g", ")">>>>

DocFar ==
    <<<<"!", "[", "[", "p", "h", "o", "t", "o", ".", "p", "n", "g", "]", "]">>, <<>>, <<"!", "[", "[", "p", "h", "o", "t", "o", ".", "p", "n", "g", "|", "l", "e", "f", "t", "|", "3", "0", "0", "]", "]">>,
      <<>>, <<>>, <<>>, <<>>, <<>>, <<>>>>

DocBlocks ==
    <<<<"|", " ", "!", "[", "[", "p", "h", "o", "t", "o", ".", "p", "n", "g", "]", "]", " ", "|">>, <<"|", " ", "b", " ", "|">>, <<>>,
      <<">", " ", "!", "[", "[", "p", "h", "o", "t", "o", ".", "p", "n", "g", "|", "l", "e", "f", "t", "]", "]">>, <<">", " ", "t", "e", "x", "t">>,
      <<"p", "l", "a", "i", "n", " ", "!", "[", "[", "p", "h", "o", "t", "o", ".", "p", "n", "g", "]", "]", " ", "!", "[", "[", "p", "h", "o", "t", "o", ".", "p", "n", "g", "]", "]">>>>

DocNested == <<<<"|", " ", "!", "[", "[", "p", "h", "o", "t", "o", ".", "p", "n", "g", "]", "]", " ", "|">>, <<">", " ", "|", " ", "!", "[", "[", "p", "h", "o", "t", "o", ".", "p", "n", "g", "]", "]", " ", "|">>>>

DocBadEscape == <<<<"!", "[", "[", "p", "h", "o", "t", "o", ".", "p", "n", "g", "]", "]", " ", "!", "[", "b", "]", "(", "5", "0", "%", ".", "p", "n", "g", ")">>>>

\* sized tokens in hash form, with blanks around the segments, and without an alignment
DocSized == <<<<"!", "[", "[", "p", "h", "o", "t", "o", ".", "p", "n", "g", "#", "r", "i", "g", "h", "t", "#", "d", "a", "r", "k", "|", "c", "a", "p", "|", "3", "0", "0", "]", "]">>,
              <<"a", " ", "!", "[", "[", "p", "h", "o", "t", "o", ".", "p", "n", "g", "|", " ", "3", "0", "0", " ", "|", "l", "e", "f", "t", "]", "]", " ", "b">>,
              <<"!", "[", "[", "p", "h", "o", "t", "o", ".", "p", "n", "g", "|", "3", "0", "0", "]", "]">>>>

\* embeds of other files: the same base name with another extension, and the same file
\* name in another folder
DocOthers ==
    <<<<"!", "[", "[", "p", "h", "o", "t", "o", ".", "j", "p", "g", "|", "l", "e", "f", "t", "]", "]">>,
      <<"!", "[", "[", "o", "l", "d", "/", "p", "h", "o", "t", "o", ".", "p", "n", "g", "]", "]", " ", "!", "[", "[", "p", "h", "o", "t", "o", ".", "p", "n", "g", "]", "]">>>>

SeedDocs ==
    {DocExample, DocLocator, DocFar, DocBlocks, DocNested, DocBadEscape, DocSized, DocOthers}

menuCall(op, target, hint, value, before, o) ==
    [NoCall EXCEPT !.op = op, !.target = target, !.hint = hint, !.value = value,
                   !.before = before, !.atLocate = before, !.threw = o.threw, !.matches = o.matches,
                   !.found = o.found, !.how = o.how, !.lineNumber = o.lineNumber,
                   !.fullMatch = o.fullMatch, !.newLink = o.newLink]

Hints == {NoHint} \cup (0..(Len(doc) - 1))

EditInit ==
    /\ doc \in SeedDocs
    /\ notices = <<>>
    /\ call = NoCall
    /\ session = NoSession
    /\ opCount = 0
    /\ link = <<>>
    /\ prevLink = <<>>
    /\ lastOp = [kind |-> "seed", arg |-> NoArg]
    /\ RefIdle

UpdateAlignment(target, hint, a) ==
    /\ opCount < MaxOps
    /\ \E o \in {updateAlignment(doc, target, hint, a)} :
        /\ doc' = o.doc
        /\ notices' = o.notices
        /\ call' = menuCall("alignment", target, hint, a, doc, o)
        /\ opCount' = opCount + 1
        /\ UNCHANGED <<session, codecVars, refVars, dragVars>>

ToggleDarkMode(target, hint) ==
    /\ opCount < MaxOps
    /\ \E o \in {toggleDarkMode(doc, target, hint)} :
        /\ doc' = o.doc
        /\ notices' = o.notices
        /\ call' = menuCall("dark", target, hint, <<>>, doc, o)
        /\ opCount' = opCount + 1
        /\ UNCHANGED <<session, codecVars, refVars, dragVars>>

DeleteLink(target, hint) ==
    /\ opCount < MaxOps
    /\ \E o \in {deleteLink(doc, target, hint)} :
        /\ doc' = o.doc
        /\ notices' = o.notices
        /\ call' = menuCall("delete", target, hint, <<>>, doc, o)
        /\ opCount' = opCount + 1
        /\ UNCHANGED <<session, codecVars, refVars, dragVars>>

\* the caption menu item: locates the token and opens the input box on it
EditCaption(target, hint) ==
    /\ opCount < MaxOps
    /\ ~session.attached
    /\ \E o \in {editCaption(doc, target, hint)} :
        /\ doc' = o.doc
        /\ notices' = o.notices
        /\ call' = menuCall("caption", target, hint, <<>>, doc, o)
        /\ session' = IF o.found
                      THEN [NoSession EXCEPT
                               !.active = TRUE, !.attached = TRUE,
                               !.match = [lineNumber |-> o.lineNumber,
                                          fullMatch |-> o.fullMatch],
                               !.currentCaption = extractCaptionFromLink(o.fullMatch)]
                      ELSE session
        /\ opCount' = opCount + 1
        /\ UNCHANGED <<codecVars, refVars, dragVars>>

\* the keydown or blur listener of the input box calls handleInput(save)
inputEvent(save, value) ==
    /\ \E o \in {handleInput(session, doc, save, value)} :
        /\ session' = o.session
        /\ IF ~o.ran THEN UNCHANGED <<doc, notices, call>>
           ELSE /\ doc' = o.doc
                /\ notices' = o.notices
                /\ call' = IF save
                           THEN [NoCall EXCEPT
                                    !.op = "captionSave", !.value = trim(value),
                                    !.before = doc, !.atLocate = call.before,
                                    !.found = TRUE,
                                    !.lineNumber = session.match.lineNumber,
                                    !.fullMatch = session.match.fullMatch,
                                    !.newLink = o.newLink]
                           ELSE [NoCall EXCEPT !.op = "captionCancel", !.before = doc]
    /\ UNCHANGED <<opCount, codecVars, refVars, dragVars>>

\* Enter or blur on the input box
CaptionSave(value) ==
    /\ session.active
    /\ inputEvent(TRUE, value)

\* Escape on the input box
CaptionCancel ==
    /\ session.active
    /\ inputEvent(FALSE, <<>>)

\* the document changes while the input box is open (the handleInput closure keeps the
\* match of line 855; the editor is not locked): a line break is typed at the very start
DocumentEdited ==
    /\ session.active
    /\ call.op = "caption"
    /\ doc = call.before
    /\ doc' = <<<<>>>> \o doc
    /\ UNCHANGED <<notices, call, session, opCount, codecVars, refVars, dragVars>>

\* the document changes while the input box is open: its first line is deleted
DocumentShortened ==
    /\ session.active
    /\ call.op = "caption"
    /\ doc = call.before
    /\ Len(doc) > 1
    /\ doc' = Tail(doc)
    /\ UNCHANGED <<notices, call, session, opCount, codecVars, refVars, dragVars>>

\* a drag rewrite of width w for the image rendered from line target_line; an image in
\* a callout comes from a line starting with '>', one in a table from a line with a '|'
ResizeImage(target_line, imageName, w, inTable, inCallout) ==
    /\ opCount < MaxOps
    /\ inCallout => startReg("callout", doc[target_line])
    /\ inTable => includes(doc[target_line], kPipe)
    /\ \E o \in {updateInternalLink(doc, target_line, imageName, w, inTable, inCallout)} :
        /\ doc' = o.doc
        /\ notices' = o.notices
        /\ call' = [NoCall EXCEPT !.op = "size", !.target = imageName, !.before = doc,
                                  !.atLocate = doc,
                                  !.anchor = target_line, !.width = w, !.inTable = inTable,
                                  !.inCallout = inCallout, !.mode = o.mode,
                                  !.searched = o.searched, !.matched = o.matched,
                                  !.found = Len(o.matched) = 1]
        /\ opCount' = opCount + 1
        /\ UNCHANGED <<session, codecVars, refVars, dragVars>>

EditNext ==
    \/ \E target \in Targets, hint \in Hints, a \in Alignments : UpdateAlignment(target, hint, a)
    \/ \E target \in Targets, hint \in Hints : ToggleDarkMode(target, hint)
    \/ \E target \in Targets, hint \in Hints : DeleteLink(target, hint)
    \/ \E target \in Targets, hint \in Hints : EditCaption(target, hint)
    \/ \E value \in InputValues : CaptionSave(value)
    \/ CaptionCancel
    \/ DocumentEdited
    \/ DocumentShortened
    \/ \E target_line \in 1..Len(doc), imageName \in ImageNames, w \in DragWidths,
          inTable \in BOOLEAN, inCallout \in BOOLEAN :
           ResizeImage(target_line, imageName, w, inTable, inCallout)

SpecEdit == EditInit /\ [][EditNext]_vars


(***************************************************************************)
(* Claims about the handlers, stated over SpecEdit.                       *)
(***************************************************************************)

MenuOps == {"alignment", "dark", "caption", "delete"}

\* the last invocation was a context-menu handler that ran the locator to its end
Located == call.op \in MenuOps /\ call.target # NoPath /\ ~call.threw

\* the lines (0-based) the locator reported a match on
matchLineNumbers == {call.matches[k].lineNumber : k \in 1..Len(call.matches)}

\* the least distance between the rendered image's line and a line with a match
minDistance == MinOf({abs(n - call.hint) : n \in matchLineNumbers})

\* the token the handler selected is one of the matches the locator reported
selectedIsMatch ==
    \E k \in 1..Len(call.matches) :
        call.matches[k] = [lineNumber |-> call.lineNumber, fullMatch |-> call.fullMatch]

\* line n (0-based) of lines with the first occurrence of old replaced by new
spanReplaced(lines, n, old, new) ==
    LET line == lines[n + 1]
        k == indexOf(line, old)
    IN  [lines EXCEPT ![n + 1] = cut(line, 1, k) \o new \o cut(line, k + Len(old) + 1, Len(line))]

\* the alignment handler located an embed token that carries a size
AlignedSizedToken ==
    /\ Located /\ call.op = "alignment" /\ call.found
    /\ isEmbedLink(call.fullMatch)
    /\ decodeSize(call.fullMatch) # <<>>

\* C5: changing the alignment of a token that has a size suffix keeps the size suffix and
\* the dark flag, in the same slot order (a token name[|dark]|alignment|size stays in that
\* layout with only the alignment keyword changed) and leaves the text of the line outside
\* the token, and every other line, unchanged; 'Some text ![[photo.png|dark|left|300]] more
\* text' with alignment right becomes 'Some text ![[photo.png|dark|right|300]] more text'.
C5_AlignmentKeepsSize ==
    AlignedSizedToken =>
        LET old == call.fullMatch
            new == call.newLink
        IN  /\ decodeSize(new) = decodeSize(old)
            /\ decodeDark(new) = decodeDark(old)
            /\ decodePosition(new) = call.value
            /\ old = pipeTemplate(decodeName(old), decodeDark(old), decodePosition(old), decodeSize(old))
                   => new = pipeTemplate(decodeName(old), decodeDark(old), call.value, decodeSize(old))
            /\ doc = spanReplaced(call.before, call.lineNumber, old, new)
            /\ (call.before = DocExample /\ call.value = kRight)
                   => doc = <<<<"S", "o", "m", "e", " ", "t", "e", "x", "t", " ", "!", "[", "[", "p", "h", "o", "t", "o", ".", "p", "n", "g", "|", "d", "a", "r", "k", "|", "r", "i", "g", "h", "t", "|", "3", "0", "0", "]", "]", " ", "m", "o", "r", "e", " ", "t", "e", "x", "t">>>>

\* C5 witness: the example line, re-aligned to the right
C5_Witness ==
    /\ AlignedSizedToken
    /\ call.before = DocExample
    /\ call.value = kRight
    /\ call.fullMatch = <<"!", "[", "[", "p", "h", "o", "t", "o", ".", "p", "n", "g", "|", "d", "a", "r", "k", "|", "l", "e", "f", "t", "|", "3", "0", "0", "]", "]">>
    /\ doc # call.before

\* the block search of the size rewrite ran (the image is in a table or a callout)
BlockSearch == call.op = "size" /\ call.mode \in {"table", "callout"}

\* the maximal run of lines (1-based) matching the block pattern that contains the anchor
maximalRun(lines, mode, anchor) ==
    {i \in 1..Len(lines) :
        \A x \in 1..Len(lines) :
            ((i <= x /\ x <= anchor) \/ (anchor <= x /\ x <= i)) => startReg(mode, lines[x])}

\* C6: for an image in a table or callout the lines searched are exactly the maximal
\* contiguous run of lines matching the block's prefix pattern that contains the anchor
\* line; no line of another block or beyond the first non-matching line is searched.
C6_BlockSearchWindow ==
    BlockSearch =>
        {call.searched[k] : k \in 1..Len(call.searched)}
            = maximalRun(call.before, call.mode, call.anchor)

\* the occurrences on one line that refer to imagePath, as [index, text]
lineOccurrences(line, imagePath) ==
    {m \in {execAll(wikiRegexAt, line, 0)[k] : k \in 1..Len(execAll(wikiRegexAt, line, 0))} :
        linkMatches(trim(wikiLinkPath(m.text)), imagePath)}
    \cup
    {m \in {execAll(mdRegexAt, line, 0)[k] : k \in 1..Len(execAll(mdRegexAt, line, 0))} :
        linkMatches(decodeURIComponent(trim(mdLinkUrl(m.text))).text, imagePath)}

\* a set of occurrences of line n, from left to right
RECURSIVE leftToRight(_, _)
leftToRight(occ, n) ==
    IF occ = {} THEN <<>>
    ELSE LET first == CHOOSE m \in occ : \A o \in occ : m.index <= o.index
         IN  <<[lineNumber |-> n, fullMatch |-> first.text]>> \o leftToRight(occ \ {first}, n)

\* every occurrence that refers to imagePath, in document order, from line n (0-based) on
RECURSIVE documentOrder(_, _, _)
documentOrder(lines, n, imagePath) ==
    IF n >= Len(lines) THEN <<>>
    ELSE leftToRight(lineOccurrences(lines[n + 1], imagePath), n)
             \o documentOrder(lines, n + 1, imagePath)

\* C7: findImageMatches returns one match for every embed-bracket and every image-markup
\* occurrence that refers to the target, several on one line included, each tagged with
\* its line number, in document order.
C7_LocatorCompleteness ==
    Located => call.matches = documentOrder(call.before, 0, call.target)

\* several matches and the line of the rendered image is known
SeveralWithPosition == Located /\ Len(call.matches) > 1 /\ call.hint # NoHint

\* C8: with more than one match and the rendered image's line known, the match selected
\* is on exactly that line if a match is there; otherwise it is a match at the minimum
\* absolute line distance, provided that distance is at most 5 lines.
C8_Disambiguation ==
    SeveralWithPosition =>
        /\ call.hint \in matchLineNumbers
               => (call.found /\ selectedIsMatch /\ call.lineNumber = call.hint)
        /\ (call.hint \notin matchLineNumbers /\ minDistance <= 5)
               => (call.found /\ selectedIsMatch
                   /\ abs(call.lineNumber - call.hint) = minDistance)

\* C8 witness: matches on lines 0 and 2, the image rendered from line 5: the nearest
\* match, not the first one, is selected
C8_Witness ==
    /\ SeveralWithPosition
    /\ matchLineNumbers = {0, 2}
    /\ call.hint = 5
    /\ call.lineNumber = 2

\* several matches and no usable position
Ambiguous ==
    /\ Located /\ Len(call.matches) > 1
    /\ call.hint = NoHint \/ (call.hint \notin matchLineNumbers /\ minDistance > 5)

\* the Notices that report the outcome of a handler
OutcomeNotices ==
    {NoticeAligned, NoticeDarkOn, NoticeDarkOff, NoticeCaptionUpdated,
     NoticeCaptionDeleted, NoticeLinkDeleted, NoticeNotFound, NoticeNoPath}

\* C9: with more than one match and no usable position the first match is selected, the
\* rewrite proceeds, and a user-visible ambiguity warning is surfaced for the invocation.
C9_AmbiguousFallback ==
    Ambiguous =>
        /\ call.found
        /\ call.lineNumber = call.matches[1].lineNumber
        /\ call.fullMatch = call.matches[1].fullMatch
        /\ \E k \in 1..Len(notices) : notices[k] \notin OutcomeNotices

\* no occurrence of the target was located in the searched scope
NotLocated ==
    \/ Located /\ Len(call.matches) = 0
    \/ call.op = "size" /\ Len(call.matched) = 0

\* C10: when no occurrence of the target is located the document is left unchanged and
\* exactly one user-facing notice is produced for the invocation.
C10_NotFoundNotice ==
    NotLocated => (doc = call.before /\ Len(notices) = 1)

\* a rewrite handler selected a span that is not a ![[...]] embed token
MalformedSelected ==
    /\ call.op \in {"alignment", "dark", "captionSave"}
    /\ call.found
    /\ ~isEmbedLink(call.fullMatch)

\* C11: when the located span is not a well-formed ![[...]] embed token (an image-markup
\* match), an alignment, dark-mode or caption rewrite leaves the document as it was and
\* reports the not-found outcome, never success.
C11_MalformedToken ==
    MalformedSelected => (doc = call.before /\ notices = <<NoticeNotFound>>)

\* the Notices that report a rewrite as done
SuccessNotices ==
    {NoticeAligned, NoticeDarkOn, NoticeDarkOff, NoticeCaptionUpdated, NoticeCaptionDeleted}

\* the last invocation was a token rewrite that reported success
RewriteReported ==
    /\ call.op \in {"alignment", "dark", "captionSave"}
    /\ call.found
    /\ notices # <<>>
    /\ notices[1] \in SuccessNotices

\* C17: the token replaced by a rewrite is the token that was located for it: the line
\* written is the line the token was located on, as it was when it was located; a caption
\* save after the document was edited neither modifies another line or token nor
\* reports success without having updated the located token.
C17_AtomicReadThenWrite ==
    RewriteReported =>
        /\ call.lineNumber < Len(call.atLocate)
        /\ call.lineNumber < Len(call.before)
        /\ call.before[call.lineNumber + 1] = call.atLocate[call.lineNumber + 1]
        /\ includes(call.before[call.lineNumber + 1], call.fullMatch)

\* a token rewrite that reported success on a line holding the selected token
RewroteOnLine ==
    /\ RewriteReported
    /\ call.lineNumber < Len(call.before)
    /\ includes(call.before[call.lineNumber + 1], call.fullMatch)

\* the size rewrite dispatched its change
SizeDispatched == call.op = "size" /\ Len(call.matched) = 1

\* lines with characters from_ch..to_ch (0-based, end exclusive) of line n (1-based)
\* replaced by text, everything else as it was
frameOf(lines, n, from_ch, to_ch, text) ==
    [k \in 1..Len(lines) |->
        IF k # n THEN lines[k]
        ELSE cut(lines[k], 1, from_ch) \o text \o cut(lines[k], to_ch + 1, Len(lines[k]))]

\* C18: every successful rewrite (alignment, dark mode, caption, size) changes one line
\* only; all other lines are unchanged, the characters of the changed line outside the
\* span of the selected occurrence are unchanged, and the span is replaced by exactly
\* the re-encoded token.
C18_SingleSpanFrame ==
    /\ RewroteOnLine =>
           doc = frameOf(call.before, call.lineNumber + 1,
                         indexOf(call.before[call.lineNumber + 1], call.fullMatch),
                         indexOf(call.before[call.lineNumber + 1], call.fullMatch)
                             + Len(call.fullMatch),
                         call.newLink)
    /\ SizeDispatched =>
           doc = frameOf(call.before, call.matched[1].line, call.matched[1].result.from_ch,
                         call.matched[1].result.to_ch, call.matched[1].result.new_link)

(***************************************************************************)
(* ReferenceCache and ReferenceCheckService: the cache of backlink         *)
(* results and the batched check that fills it.                            *)
(***************************************************************************)

\* the image files of the vault (TFile objects)
Files == {1, 2, 3}

\* the path each file is loaded under, and the path a rename gives
LoadedPath(f) == <<"a.png", "b.png", "c.png">>[f]

RenamedPath == "r.png"

Paths == {LoadedPath(f) : f \in Files} \cup {RenamedPath}

\* the references the metadata cache may report for a file
NoReferences == <<>>

OneReference == <<[file |-> "note.md", type |-> "embed"]>>

\* Map.get of a key the Map does not hold
NoEntry == [present |-> FALSE, references |-> <<>>, referenceCount |-> 0]

\* a cache that never reports a hit
has_never(cache, key) == FALSE

has(cache, key) == cache[key].present

get(cache, key) == cache[key]

\* a cache that stores the references without their count
set_noCount(cache, key, value) ==
    [cache EXCEPT ![key] = [present |-> TRUE, references |-> value.references,
                            referenceCount |-> 0]]

set(cache, key, value) ==
    [cache EXCEPT ![key] = [present |-> TRUE, references |-> value.references,
                            referenceCount |-> value.referenceCount]]

delete(cache, key) == [cache EXCEPT ![key] = NoEntry]

clear(cache) == [key \in Paths |-> NoEntry]

\* a rename that leaves the entry of the old key in place
updateKey_keepOld(cache, oldKey, newKey) ==
    IF cache[oldKey].present
    THEN [cache EXCEPT ![newKey] = cache[oldKey]]
    ELSE cache

\* a stored value is an object, so "if (value)" is the test that the key is held
updateKey(cache, oldKey, newKey) ==
    IF has(cache, oldKey)
    THEN set(delete(cache, oldKey), newKey, get(cache, oldKey))
    ELSE cache

\* an ImageItem as ImageLoaderService builds it for an image that is its own display
\* file: references and referenceCount undefined
ImageItem(f, path) ==
    [originalFile |-> f, displayFile |-> f, isCustomType |-> FALSE, path |-> path,
     checked |-> FALSE, references |-> <<>>, referenceCount |-> 0]

\* the file findReferencesUsingBacklinks asks the metadata cache about
targetFile(imageItem) ==
    IF imageItem.isCustomType /\ imageItem.displayFile # imageItem.originalFile
    THEN imageItem.displayFile
    ELSE imageItem.originalFile

\* getBacklinksForFile on the target file, one ReferenceInfo per occurrence
findReferencesUsingBacklinks(bl, imageItem) == bl[targetFile(imageItem)]

\* the number of descriptors checkReferences handles between two suspensions (20 in
\* the source, scaled to the short lists followed here)
BatchSize == 2

\* the inner loop of checkReferences over updatedImages[j .. end - 1] (0-based); st
\* carries the cache, the updatedImages array, the paths queried, whether the backlink
\* query threw and at which index; failing holds the files the metadata cache throws for
RECURSIVE processBatch(_, _, _, _, _)
processBatch(st, j, end, bl, failing) ==
    IF j >= end \/ st.threw THEN st
    ELSE LET imageItem == st.updatedImages[j + 1]
             cacheKey == imageItem.path
         IN  IF has(st.cache, cacheKey)
             THEN processBatch(
                      [st EXCEPT !.updatedImages[j + 1] =
                          [imageItem EXCEPT !.checked = TRUE,
                                            !.references = get(st.cache, cacheKey).references,
                                            !.referenceCount = get(st.cache, cacheKey).referenceCount]],
                      j + 1, end, bl, failing)
             ELSE IF targetFile(imageItem) \in failing
             THEN [st EXCEPT !.threw = TRUE, !.failedKey = cacheKey, !.reached = j]
             ELSE LET references == findReferencesUsingBacklinks(bl, imageItem)
                      result == [references |-> references, referenceCount |-> Len(references)]
                  IN  processBatch(
                          [st EXCEPT !.cache = set(st.cache, cacheKey, result),
                                     !.queried = Append(st.queried, cacheKey),
                                     !.updatedImages[j + 1] =
                                         [imageItem EXCEPT !.checked = TRUE,
                                                           !.references = result.references,
                                                           !.referenceCount = result.referenceCount]],
                          j + 1, end, bl, failing)

\* one run of checkReferences from batch index i up to its next suspension
runBatch(cache, updatedImages, i, bl, failing) ==
    processBatch([cache |-> cache, updatedImages |-> updatedImages, queried |-> <<>>,
                  threw |-> FALSE, failedKey |-> "", reached |-> i],
                 i, MinOf({i + BatchSize, Len(updatedImages)}), bl, failing)

\* a checkReferences call suspended at "await new Promise(setTimeout 0)"
suspended(kind, st, i, toggle, atStart) ==
    [kind |-> kind, updatedImages |-> st.updatedImages, i |-> i, toggle |-> toggle,
     atStart |-> atStart]

\* what a run of the service left: the range of updatedImages it handled, the cache
\* before it, the paths it queried, and how it ended
stepRecord(op, st, from, before, atStart, ending) ==
    [op |-> op, from |-> from,
     upto |-> IF st.threw THEN st.reached
              ELSE MinOf({from + BatchSize, Len(st.updatedImages)}),
     updatedImages |-> st.updatedImages, before |-> before, atStart |-> atStart,
     queried |-> st.queried, threw |-> st.threw, failedKey |-> st.failedKey,
     ending |-> ending, oldKey |-> "", newKey |-> "", kind |-> "service"]

NoStep ==
    [op |-> "none", from |-> 0, upto |-> 0, updatedImages |-> <<>>, before |-> <<>>,
     atStart |-> <<>>, queried |-> <<>>, threw |-> FALSE, failedKey |-> "",
     ending |-> "none", oldKey |-> "", newKey |-> "", kind |-> "service"]

\* queryCount after a run that queried the paths of queried (counted up to 2)
counted(qc, queried) ==
    [p \in Paths |-> MinOf({2, qc[p] + Cardinality({k \in 1..Len(queried) : queried[k] = p})})]

NoQueries == [p \in Paths |-> 0]

removeAt(s, k) == cut(s, 1, k - 1) \o cut(s, k + 1, Len(s))

(***************************************************************************)
(* SpecService: one ReferenceCheckService, its callers and the vault's     *)
(* link index around it.                                                   *)
(***************************************************************************)

\* the text state while a reference specification runs
TextIdle ==
    /\ link = <<>>
    /\ prevLink = <<>>
    /\ lastOp = [kind |-> "seed", arg |-> NoArg]
    /\ doc = <<>>
    /\ notices = <<>>
    /\ call = NoCall
    /\ session = NoSession
    /\ opCount = 0

textVars == <<codecVars, editVars>>

\* the number of calls, cache operations and link changes followed
MaxRefOps == 3

\* the number of checkReferences calls suspended at once
MaxCalls == 2

\* the descriptor lists callers pass: empty, distinct paths, a path twice in one list,
\* a file under its new path, a single file
DescriptorLists ==
    {<<>>,
     <<ImageItem(1, "a.png"), ImageItem(2, "b.png")>>,
     <<ImageItem(2, "b.png"), ImageItem(1, "a.png"), ImageItem(2, "b.png")>>,
     <<ImageItem(1, "r.png")>>,
     <<ImageItem(3, "c.png")>>}

\* the files getBacklinksForFile throws for during one run: none, or file 1
Failings == {{}, {1}}

ServiceInit ==
    /\ referenceCache = clear(<<>>)
    /\ backlinks \in {[f \in Files |-> NoReferences],
                      [f \in Files |-> IF f = 1 THEN OneReference ELSE NoReferences]}
    /\ calls = <<>>
    /\ queryCount = NoQueries
    /\ svcStep = NoStep
    /\ view = <<>>
    /\ vault = <<>>
    /\ refOps = 0
    /\ drag = <<>>
    /\ TextIdle

\* a caller invokes checkReferences(images): the call runs to its first suspension
ServiceCheckReferences(images, failing) ==
    /\ refOps < MaxRefOps
    /\ Len(calls) < MaxCalls
    /\ refOps' = refOps + 1
    /\ IF images = <<>>
       THEN /\ svcStep' = [NoStep EXCEPT !.op = "check", !.ending = "returned",
                                         !.before = referenceCache,
                                         !.atStart = referenceCache]
            /\ UNCHANGED <<referenceCache, calls, queryCount>>
       ELSE \E st \in {runBatch(referenceCache, images, 0, backlinks, failing)} :
            /\ referenceCache' = st.cache
            /\ queryCount' = counted(queryCount, st.queried)
            /\ svcStep' = stepRecord("check", st, 0, referenceCache, referenceCache,
                                     IF st.threw THEN "rejected" ELSE "suspended")
            /\ calls' = IF st.threw THEN calls
                        ELSE Append(calls, suspended("service", st, BatchSize, FALSE,
                                                     referenceCache))
    /\ UNCHANGED <<backlinks, view, vault, textVars, dragVars>>

\* the timer of suspended call k fires: the next batch runs, or the call returns
ServiceResume(k, failing) ==
    /\ k \in 1..Len(calls)
    /\ IF calls[k].i >= Len(calls[k].updatedImages)
       THEN /\ calls' = removeAt(calls, k)
            /\ svcStep' = [NoStep EXCEPT !.op = "resume", !.ending = "returned",
                                         !.from = calls[k].i, !.upto = calls[k].i,
                                         !.updatedImages = calls[k].updatedImages,
                                         !.before = referenceCache,
                                         !.atStart = calls[k].atStart]
            /\ UNCHANGED <<referenceCache, queryCount>>
       ELSE \E st \in {runBatch(referenceCache, calls[k].updatedImages, calls[k].i,
                                backlinks, failing)} :
            /\ referenceCache' = st.cache
            /\ queryCount' = counted(queryCount, st.queried)
            /\ svcStep' = stepRecord("resume", st, calls[k].i, referenceCache,
                                     calls[k].atStart,
                                     IF st.threw THEN "rejected" ELSE "suspended")
            /\ calls' = IF st.threw THEN removeAt(calls, k)
                        ELSE [calls EXCEPT ![k] = suspended(calls[k].kind, st,
                                                            calls[k].i + BatchSize,
                                                            calls[k].toggle,
                                                            calls[k].atStart)]
    /\ UNCHANGED <<backlinks, view, vault, refOps, textVars, dragVars>>

\* getCache().updateKey(oldKey, newKey)
ServiceUpdateKey(oldKey, newKey) ==
    /\ refOps < MaxRefOps
    /\ refOps' = refOps + 1
    /\ referenceCache' = updateKey(referenceCache, oldKey, newKey)
    /\ queryCount' = NoQueries
    /\ svcStep' = [NoStep EXCEPT !.op = "updateKey", !.before = referenceCache,
                                 !.oldKey = oldKey, !.newKey = newKey]
    /\ UNCHANGED <<backlinks, calls, view, vault, textVars, dragVars>>

\* clearCache()
ServiceClearCache ==
    /\ refOps < MaxRefOps
    /\ refOps' = refOps + 1
    /\ referenceCache' = clear(referenceCache)
    /\ queryCount' = NoQueries
    /\ svcStep' = [NoStep EXCEPT !.op = "clear", !.before = referenceCache]
    /\ UNCHANGED <<backlinks, calls, view, vault, textVars, dragVars>>

\* a note of the vault starts to embed file f: the metadata cache reports it from now on
LinkAdded(f) ==
    /\ refOps < MaxRefOps
    /\ backlinks[f] = NoReferences
    /\ refOps' = refOps + 1
    /\ backlinks' = [backlinks EXCEPT ![f] = OneReference]
    /\ UNCHANGED <<referenceCache, calls, queryCount, svcStep, view, vault, textVars, dragVars>>

ServiceNext ==
    \/ \E images \in DescriptorLists, failing \in Failings :
           ServiceCheckReferences(images, failing)
    \/ \E k \in 1..MaxCalls, failing \in Failings : ServiceResume(k, failing)
    \/ \E oldKey \in {"a.png", "b.png"}, newKey \in {"r.png", "b.png"} :
           ServiceUpdateKey(oldKey, newKey)
    \/ ServiceClearCache
    \/ \E f \in Files : LinkAdded(f)

SpecService == ServiceInit /\ [][ServiceNext]_vars

(***************************************************************************)
(* Claims about the reference cache and the batched check, stated over     *)
(* SpecService.                                                            *)
(***************************************************************************)

\* the last service operation ran a batch of checkReferences
RanBatch == svcStep.op \in {"check", "resume"} /\ svcStep.ending # "returned"

\* the positions (1-based) of updatedImages the last run handled
handled == (svcStep.from + 1)..svcStep.upto

lookup(key) == runBatch(referenceCache, <<ImageItem(1, key)>>, 0, backlinks, Files)

\* C13: after updateKey(oldPath, newPath) on a cache with an entry at oldPath, a lookup
\* of newPath returns the value that was stored at oldPath without a collaborator
\* query, a lookup of oldPath (when the paths differ) is a miss, and the entries of all
\* other keys are unchanged; with no entry at oldPath updateKey changes nothing.
C13_RenamePreservesCache ==
    svcStep.op = "updateKey" =>
        IF has(svcStep.before, svcStep.oldKey)
        THEN /\ ~lookup(svcStep.newKey).threw
             /\ lookup(svcStep.newKey).queried = <<>>
             /\ lookup(svcStep.newKey).updatedImages[1].references
                    = get(svcStep.before, svcStep.oldKey).references
             /\ lookup(svcStep.newKey).updatedImages[1].referenceCount
                    = get(svcStep.before, svcStep.oldKey).referenceCount
             /\ svcStep.oldKey # svcStep.newKey => lookup(svcStep.oldKey).threw
             /\ \A key \in Paths \ {svcStep.oldKey, svcStep.newKey} :
                    get(referenceCache, key) = get(svcStep.before, key)
        ELSE referenceCache = svcStep.before

\* C13 witness: an entry with a reference was moved to another key, past another entry
C13_Witness ==
    /\ svcStep.op = "updateKey"
    /\ svcStep.oldKey # svcStep.newKey
    /\ has(svcStep.before, svcStep.oldKey)
    /\ get(svcStep.before, svcStep.oldKey).references = OneReference
    /\ \E key \in Paths \ {svcStep.oldKey, svcStep.newKey} : has(svcStep.before, key)

\* C14 as stated: when the backlink collaborator throws during checkReferences the error
\* reaches the caller and the cache is as it was before that call.
C14_FailureLeavesCacheAsBefore ==
    (RanBatch /\ svcStep.threw) =>
        /\ svcStep.ending = "rejected"
        /\ referenceCache = svcStep.atStart

\* C14: when the backlink collaborator throws during checkReferences the error reaches
\* the caller, the descriptor that failed gets no cache entry and no entry the cache
\* held is changed; the entries set for the descriptors resolved before the failure
\* stay, each with its references and the matching referenceCount.
C14_FailureKeepsResolved ==
    (RanBatch /\ svcStep.threw) =>
        /\ svcStep.ending = "rejected"
        /\ ~has(referenceCache, svcStep.failedKey)
        /\ \A key \in Paths :
               IF \E k \in 1..Len(svcStep.queried) : svcStep.queried[k] = key
               THEN /\ has(referenceCache, key)
                    /\ ~has(svcStep.before, key)
                    /\ get(referenceCache, key).referenceCount
                           = Len(get(referenceCache, key).references)
               ELSE get(referenceCache, key) = get(svcStep.before, key)

\* C14 witness: the query threw after an earlier descriptor of the same run was
\* resolved and cached with a reference
C14_Witness ==
    /\ RanBatch
    /\ svcStep.threw
    /\ \E k \in 1..Len(svcStep.queried) :
           get(referenceCache, svcStep.queried[k]).references = OneReference

(***************************************************************************)
(* ImageManagerView: the image list, the unreferenced filter, the checks   *)
(* it starts and the deletions and renames it applies.                     *)
(***************************************************************************)

\* the number of images renderGrid renders at once (50 in the source against the 20
\* of a service batch: a rendered batch takes more than one service batch)
RenderBatch == BatchSize + 1

\* stat.mtime of the image files: a later file is newer
mtime(f) == f

\* filtered.sort by the default field and order, "mtime" and "desc"
sortImages(images) ==
    LET n == Len(images)
        rank(i) == Cardinality({j \in 1..n : \/ mtime(images[j].originalFile) > mtime(images[i].originalFile)
                                             \/ /\ mtime(images[j].originalFile) = mtime(images[i].originalFile)
                                                /\ j < i}) + 1
    IN  [k \in 1..n |-> images[CHOOSE i \in 1..n : rank(i) = k]]

\* the test of the unreferenced filter: !img.referenceCount || img.referenceCount === 0,
\* which an image that was never checked (referenceCount undefined) passes
passesUnreferenced(img) == ~img.checked \/ img.referenceCount = 0

applyFilters(v) ==
    [v EXCEPT !.filteredImages =
        sortImages(SelectSeq(v.images,
                             LAMBDA img : v.showUnreferencedOnly => passesUnreferenced(img)))]

\* renderHeader: the "delete all unreferenced" button is built when the filter is on
\* and the filtered list is not empty
renderHeader(v) ==
    [v EXCEPT !.deleteAllShown = v.showUnreferencedOnly /\ Len(v.filteredImages) > 0]

\* renderGrid(): the first batch of filteredImages is handed to requestAnimationFrame
renderGrid(v) ==
    IF v.filteredImages = <<>> THEN [v EXCEPT !.renderedCount = 0]
    ELSE [v EXCEPT !.renderedCount = 0,
                   !.frames = Append(@, cut(v.filteredImages, 1, RenderBatch))]

\* the index (1-based) of the first image of images with the path, 0 for none
findIndex(images, path) ==
    IF \E k \in 1..Len(images) : images[k].path = path
    THEN MinOf({k \in 1..Len(images) : images[k].path = path})
    ELSE 0

\* imageLoader.loadImages: one fresh ImageItem per image file of the vault
loadedImages(vlt) ==
    LET fs == vlt.files
        nth(k) == CHOOSE f \in fs : Cardinality({g \in fs : g < f}) = k - 1
    IN  [k \in 1..Cardinality(fs) |-> ImageItem(nth(k), vlt.pathOf[nth(k)])]

loadImages(v, vlt) ==
    renderGrid(renderHeader(applyFilters([v EXCEPT !.images = loadedImages(vlt),
                                                   !.renderedCount = 0])))

\* the forEach of checkBatchReferences that writes the results into this.images
RECURSIVE mergeUpdated(_, _)
mergeUpdated(images, updatedImages) ==
    IF updatedImages = <<>> THEN images
    ELSE LET index == findIndex(images, Head(updatedImages).path)
         IN  mergeUpdated(IF index = 0 THEN images
                          ELSE [images EXCEPT ![index] = Head(updatedImages)],
                          Tail(updatedImages))

\* the rest of filterBtn.onclick after its await
toggleFilter(v) ==
    renderGrid(renderHeader(applyFilters(
        [v EXCEPT !.showUnreferencedOnly = ~v.showUnreferencedOnly])))

\* the rest of ImageManagerView.checkReferences after the service returned
afterFullCheck(v, updatedImages) ==
    [renderGrid(applyFilters([v EXCEPT !.images = updatedImages]))
        EXCEPT !.isCheckingReferences = FALSE]

\* the catch and finally blocks of ImageManagerView.checkReferences
afterFailedCheck(v) == [v EXCEPT !.isCheckingReferences = FALSE]

updateImageAfterRename(v, oldPath, newPath) ==
    LET imageIndex == findIndex(v.images, oldPath)
        filteredIndex == findIndex(v.filteredImages, oldPath)
    IN  [v EXCEPT !.images = IF imageIndex = 0 THEN @
                             ELSE [@ EXCEPT ![imageIndex].path = newPath],
                  !.filteredImages = IF filteredIndex = 0 THEN @
                                     ELSE [@ EXCEPT ![filteredIndex].path = newPath]]

withoutPath(images, path) == SelectSeq(images, LAMBDA img : img.path # path)

removeImageFromMemory(v, image) ==
    [v EXCEPT !.images = withoutPath(@, image.path),
              !.filteredImages = withoutPath(@, image.path)]

\* removeImageFromList without its clearCache
removeImageFromList(v, image) == renderHeader(renderGrid(removeImageFromMemory(v, image)))

RECURSIVE removeAll(_, _)
removeAll(v, imagesToDelete) ==
    IF imagesToDelete = <<>> THEN v
    ELSE removeAll(removeImageFromMemory(v, Head(imagesToDelete)), Tail(imagesToDelete))

\* the fields of the view after its constructor
NewView(defaultFilterUnreferenced) ==
    [images |-> <<>>, filteredImages |-> <<>>,
     showUnreferencedOnly |-> defaultFilterUnreferenced,
     isCheckingReferences |-> FALSE, renderedCount |-> 0, frames |-> <<>>,
     deleteAllShown |-> FALSE, opened |-> FALSE]

NewVault ==
    [files |-> Files, pathOf |-> [f \in Files |-> LoadedPath(f)], deleted |-> {}]

(***************************************************************************)
(* SpecView: one ImageManagerView over a vault of three image files.       *)
(***************************************************************************)

MaxViewOps == 2

unchecked(images) == SelectSeq(images, LAMBDA img : ~img.checked)

ViewInit ==
    /\ referenceCache = clear(<<>>)
    /\ backlinks \in {[f \in Files |-> NoReferences],
                      [f \in Files |-> IF f = 1 THEN OneReference ELSE NoReferences]}
    /\ calls = <<>>
    /\ queryCount = NoQueries
    /\ svcStep = NoStep
    /\ view \in {NewView(defaultFilterUnreferenced) : defaultFilterUnreferenced \in BOOLEAN}
    /\ vault = NewVault
    /\ refOps = 0
    /\ drag = <<>>
    /\ TextIdle

\* onOpen: the images are loaded, filtered and handed to the grid
OnOpen ==
    /\ ~view.opened
    /\ view' = [loadImages(view, vault) EXCEPT !.opened = TRUE]
    /\ UNCHANGED <<referenceCache, backlinks, calls, queryCount, svcStep, vault, refOps,
                   textVars, dragVars>>

\* the requestAnimationFrame callback of renderGrid: the batch is rendered and
\* checkBatchReferences runs on it up to the first suspension of the service
RenderFrame(failing) ==
    /\ view.frames # <<>>
    /\ unchecked(Head(view.frames)) # <<>> => Len(calls) < MaxCalls
    /\ view' = [view EXCEPT !.frames = Tail(@), !.renderedCount = Len(Head(view.frames))]
    /\ IF unchecked(Head(view.frames)) = <<>>
       THEN UNCHANGED <<referenceCache, calls, queryCount, svcStep>>
       ELSE \E st \in {runBatch(referenceCache, unchecked(Head(view.frames)), 0,
                                backlinks, failing)} :
            /\ referenceCache' = st.cache
            /\ queryCount' = counted(queryCount, st.queried)
            /\ svcStep' = [stepRecord("check", st, 0, referenceCache, referenceCache,
                                      IF st.threw THEN "rejected" ELSE "suspended")
                              EXCEPT !.kind = "batch"]
            /\ calls' = IF st.threw THEN calls
                        ELSE Append(calls, suspended("batch", st, BatchSize, FALSE,
                                                     referenceCache))
    /\ UNCHANGED <<backlinks, vault, refOps, textVars, dragVars>>

\* filterBtn.onclick: with the filter off and unchecked images it awaits
\* this.checkReferences(), which returns at once when a check is already running
ClickFilter(failing) ==
    /\ view.opened
    /\ refOps < MaxViewOps
    /\ refOps' = refOps + 1
    /\ IF view.showUnreferencedOnly \/ unchecked(view.images) = <<>>
          \/ view.isCheckingReferences \/ view.images = <<>>
       THEN /\ view' = toggleFilter(view)
            /\ UNCHANGED <<referenceCache, calls, queryCount, svcStep>>
       ELSE /\ Len(calls) < MaxCalls
            /\ \E st \in {runBatch(referenceCache, view.images, 0, backlinks, failing)} :
                /\ referenceCache' = st.cache
                /\ queryCount' = counted(queryCount, st.queried)
                /\ svcStep' = [stepRecord("check", st, 0, referenceCache, referenceCache,
                                          IF st.threw THEN "rejected" ELSE "suspended")
                                  EXCEPT !.kind = "full"]
                /\ calls' = IF st.threw THEN calls
                            ELSE Append(calls, suspended("full", st, BatchSize, TRUE,
                                                         referenceCache))
                /\ view' = IF st.threw THEN toggleFilter(afterFailedCheck(view))
                           ELSE [view EXCEPT !.isCheckingReferences = TRUE]
    /\ UNCHANGED <<backlinks, vault, textVars, dragVars>>

\* the view's code that runs when call c has returned updatedImages
afterReturn(v, c) ==
    IF c.kind = "batch" THEN [v EXCEPT !.images = mergeUpdated(@, c.updatedImages)]
    ELSE IF c.toggle THEN toggleFilter(afterFullCheck(v, c.updatedImages))
    ELSE afterFullCheck(v, c.updatedImages)

\* the view's code that runs when call c has thrown
afterThrow(v, c) ==
    IF c.kind = "batch" THEN v
    ELSE IF c.toggle THEN toggleFilter(afterFailedCheck(v))
    ELSE afterFailedCheck(v)

\* the timer of suspended call k fires: the next batch runs, or the call returns and
\* the code of the view that awaited it runs
ViewResume(k, failing) ==
    /\ k \in 1..Len(calls)
    /\ IF calls[k].i >= Len(calls[k].updatedImages)
       THEN /\ calls' = removeAt(calls, k)
            /\ svcStep' = [NoStep EXCEPT !.op = "resume", !.ending = "returned",
                                         !.from = calls[k].i, !.upto = calls[k].i,
                                         !.updatedImages = calls[k].updatedImages,
                                         !.before = referenceCache,
                                         !.atStart = calls[k].atStart,
                                         !.kind = calls[k].kind]
            /\ view' = afterReturn(view, calls[k])
            /\ UNCHANGED <<referenceCache, queryCount>>
       ELSE \E st \in {runBatch(referenceCache, calls[k].updatedImages, calls[k].i,
                                backlinks, failing)} :
            /\ referenceCache' = st.cache
            /\ queryCount' = counted(queryCount, st.queried)
            /\ svcStep' = [stepRecord("resume", st, calls[k].i, referenceCache,
                                      calls[k].atStart,
                                      IF st.threw THEN "rejected" ELSE "suspended")
                              EXCEPT !.kind = calls[k].kind]
            /\ calls' = IF st.threw THEN removeAt(calls, k)
                        ELSE [calls EXCEPT ![k] = suspended(calls[k].kind, st,
                                                            calls[k].i + BatchSize,
                                                            calls[k].toggle,
                                                            calls[k].atStart)]
            /\ view' = IF st.threw THEN afterThrow(view, calls[k]) ELSE view
    /\ UNCHANGED <<backlinks, vault, refOps, textVars, dragVars>>

\* the image of the view that shows file f
imageOf(v, f) == v.images[CHOOSE k \in 1..Len(v.images) : v.images[k].originalFile = f]

\* handleRename after the rename of the file succeeded
HandleRename(f) ==
    /\ view.opened
    /\ refOps < MaxViewOps
    /\ f \in vault.files
    /\ \E k \in 1..Len(view.images) : view.images[k].originalFile = f
    /\ \A g \in vault.files : vault.pathOf[g] # RenamedPath
    /\ refOps' = refOps + 1
    /\ vault' = [vault EXCEPT !.pathOf[f] = RenamedPath]
    /\ view' = renderGrid(renderHeader(
                   updateImageAfterRename(view, imageOf(view, f).path, RenamedPath)))
    /\ referenceCache' = updateKey(referenceCache, imageOf(view, f).path, RenamedPath)
    /\ queryCount' = NoQueries
    /\ svcStep' = [NoStep EXCEPT !.op = "updateKey", !.before = referenceCache,
                                 !.oldKey = imageOf(view, f).path, !.newKey = RenamedPath]
    /\ UNCHANGED <<backlinks, calls, textVars, dragVars>>

\* handleDelete after the deletion of the file succeeded
HandleDelete(f) ==
    /\ view.opened
    /\ refOps < MaxViewOps
    /\ f \in vault.files
    /\ \E k \in 1..Len(view.images) : view.images[k].originalFile = f
    /\ refOps' = refOps + 1
    /\ vault' = [vault EXCEPT !.files = @ \ {f}]
    /\ view' = removeImageFromList(view, imageOf(view, f))
    /\ referenceCache' = clear(referenceCache)
    /\ queryCount' = NoQueries
    /\ svcStep' = [NoStep EXCEPT !.op = "clear", !.before = referenceCache]
    /\ UNCHANGED <<backlinks, calls, textVars, dragVars>>

\* the images of list whose file the vault still has
deletable(list, vlt) == SelectSeq(list, LAMBDA img : img.originalFile \in vlt.files)

\* "delete all unreferenced", confirmed: every image of filteredImages is deleted,
\* then the view is refreshed
HandleBatchDelete ==
    /\ view.opened
    /\ refOps < MaxViewOps
    /\ view.deleteAllShown
    /\ view.filteredImages # <<>>
    /\ refOps' = refOps + 1
    /\ \E gone \in {deletable(view.filteredImages, vault)} :
        /\ vault' = [vault EXCEPT
                        !.files = @ \ {gone[k].originalFile : k \in 1..Len(gone)},
                        !.deleted = @ \cup {gone[k] : k \in 1..Len(gone)}]
        /\ view' = loadImages(removeAll(view, gone), vault')
    /\ referenceCache' = clear(referenceCache)
    /\ queryCount' = NoQueries
    /\ svcStep' = [NoStep EXCEPT !.op = "clear", !.before = referenceCache]
    /\ UNCHANGED <<backlinks, calls, textVars, dragVars>>

ViewNext ==
    \/ OnOpen
    \/ \E failing \in Failings : RenderFrame(failing)
    \/ \E failing \in Failings : ClickFilter(failing)
    \/ \E k \in 1..MaxCalls, failing \in Failings : ViewResume(k, failing)
    \/ \E f \in Files : HandleRename(f)
    \/ \E f \in Files : HandleDelete(f)
    \/ HandleBatchDelete

SpecView == ViewInit /\ [][ViewNext]_vars

(***************************************************************************)
(* Claims about the view, stated over SpecView.                            *)
(***************************************************************************)

\* C15: at most one reference-check pass of the view is in flight at any time: a
\* check requested by the filter button or by a rendered batch while another pass
\* is suspended between batches starts no second pass.
C15_CheckReentrancy == Len(calls) <= 1

\* C19: every image that "delete all unreferenced" has deleted was, in the view's
\* list at that moment, checked for references and had a referenceCount of 0.
C19_BatchDeletionSafety ==
    \A img \in vault.deleted : img.checked /\ img.referenceCount = 0

\* the view lists file f under the path the vault has for it, and lists no file
\* the vault no longer has
listsVault(images, vlt) ==
    \A k \in 1..Len(images) :
        /\ images[k].originalFile \in vlt.files
        /\ images[k].path = vlt.pathOf[images[k].originalFile]

fullCheckCompleted ==
    /\ svcStep.op = "resume"
    /\ svcStep.kind = "full"
    /\ svcStep.ending = "returned"

\* C20: when the view's checkReferences completes, its image list holds no image
\* that was removed while the check was suspended, and holds every image renamed
\* meanwhile under its new path.
C20_NoLostUpdate == fullCheckCompleted => listsVault(view.images, vault)

(***************************************************************************)
(* ResizeHandler: one drag gesture after another on one image.  The calls  *)
(* of linkUpdateService.updateImageLinkWithNewSize made during the current *)
(* gesture are kept in drag.updates, with the handler that made them.      *)
(***************************************************************************)

\* Math.max(newWidth, 50) of performDrag
MinWidth == 50

\* the 250 ms between two link updates of performDrag
ThrottleMs == 250

\* the time that may pass between two events, in ms
DragDelays == {100, 250}

\* the last value of Date.now() followed
MaxTime == 500

\* the mouse moves followed
MaxDragEvents == 3

\* the drag gestures followed
MaxGestures == 2

\* event.clientX of the mouse events
DragXs == {40, 97, 104}

\* clientWidth and clientHeight of the image when the drag starts
DragImages == {[clientWidth |-> 40, clientHeight |-> 20],
               [clientWidth |-> 60, clientHeight |-> 60]}

\* settings.resizeInterval: the default 0, 1, an interval that divides 50 and one
\* that does not
ResizeIntervals == {0, 1, 10, 20}

\* Math.round of a / b, for a >= 0 and b > 0
roundDiv(a, b) == (2 * a + b) \div (2 * b)

\* the fields of a ResizeHandler after its constructor, the registered listeners of
\* startDrag, the clock, the updates issued, where the mouse events were and when the
\* gesture started
NewResizeHandler(resizeInterval) ==
    [isDragging |-> FALSE, startX |-> 0, startWidth |-> 0, startHeight |-> 0,
     lastUpdateX |-> 0, lastUpdate |-> 1, updatedWidth |-> 0, lastMoveTime |-> 0,
     resizeInterval |-> resizeInterval, listening |-> FALSE, now |-> 0,
     updates |-> <<>>, moved |-> FALSE, seenX |-> 0, clientX |-> 0, moves |-> 0,
     gestures |-> 0, startedAt |-> 0]

updateImageLinkWithNewSize(d, by, newWidth, newHeight) ==
    [d EXCEPT !.updates = Append(@, [by |-> by, width |-> newWidth, height |-> newHeight,
                                     at |-> d.now])]

startDrag(d, clientX, img) ==
    [d EXCEPT !.isDragging = TRUE, !.startX = clientX,
              !.startWidth = img.clientWidth, !.startHeight = img.clientHeight,
              !.lastUpdateX = clientX, !.lastUpdate = 1,
              !.updatedWidth = img.clientWidth, !.lastMoveTime = d.now,
              !.listening = TRUE]

\* a performDrag without the 250 ms test
performDrag_unthrottled(d, currentX) ==
    LET lastUpdate == IF currentX - d.lastUpdateX = 0 THEN d.lastUpdate
                      ELSE currentX - d.lastUpdateX
        newWidth == MaxOf({d.startWidth + (currentX - d.startX), MinWidth})
        newHeight == roundDiv(newWidth * d.startHeight, d.startWidth)
        d1 == [d EXCEPT !.lastUpdate = lastUpdate, !.updatedWidth = newWidth]
    IN  [updateImageLinkWithNewSize([d1 EXCEPT !.lastMoveTime = d.now],
                                    "performDrag", newWidth, newHeight)
            EXCEPT !.lastUpdateX = currentX]

performDrag(d, currentX) ==
    LET lastUpdate == IF currentX - d.lastUpdateX = 0 THEN d.lastUpdate
                      ELSE currentX - d.lastUpdateX
        newWidth == MaxOf({d.startWidth + (currentX - d.startX), MinWidth})
        newHeight == roundDiv(newWidth * d.startHeight, d.startWidth)
        d1 == [d EXCEPT !.lastUpdate = lastUpdate, !.updatedWidth = newWidth]
    IN  IF d.now - d.lastMoveTime < ThrottleMs THEN d1
        ELSE [updateImageLinkWithNewSize([d1 EXCEPT !.lastMoveTime = d.now],
                                         "performDrag", newWidth, newHeight)
                 EXCEPT !.lastUpdateX = currentX]

\* the width endDrag writes: this.updatedWidth, moved to a multiple of the interval
finalWidthOf(updatedWidth, lastUpdate, resize_interval) ==
    IF resize_interval > 1 /\ updatedWidth % resize_interval # 0
    THEN (updatedWidth \div resize_interval) * resize_interval
         + (IF lastUpdate > 0 THEN resize_interval ELSE 0)
    ELSE updatedWidth

\* an endDrag that obeys the throttle of performDrag
endDrag_throttled(d) ==
    [(IF d.now - d.lastMoveTime < ThrottleMs THEN d
      ELSE updateImageLinkWithNewSize(
               d, "endDrag", finalWidthOf(d.updatedWidth, d.lastUpdate, d.resizeInterval), 0))
        EXCEPT !.isDragging = FALSE]

endDrag(d) ==
    [updateImageLinkWithNewSize(
         d, "endDrag", finalWidthOf(d.updatedWidth, d.lastUpdate, d.resizeInterval), 0)
        EXCEPT !.isDragging = FALSE]

\* onMouseUp of startDrag: both listeners are removed, then endDrag runs
onMouseUp(d) == endDrag([d EXCEPT !.listening = FALSE])

ServiceIdle ==
    /\ referenceCache = <<>>
    /\ backlinks = <<>>
    /\ calls = <<>>
    /\ queryCount = <<>>
    /\ svcStep = <<>>
    /\ view = <<>>
    /\ vault = <<>>
    /\ refOps = 0

DragInit ==
    /\ drag \in {NewResizeHandler(resizeInterval) : resizeInterval \in ResizeIntervals}
    /\ ServiceIdle
    /\ TextIdle

\* the left button goes down in the resize zone of the image; the button is up
\* before it goes down
MouseDown(clientX, img) ==
    /\ ~drag.listening
    /\ drag.gestures < MaxGestures
    /\ drag' = [startDrag([drag EXCEPT !.updates = <<>>, !.moved = FALSE], clientX, img)
                   EXCEPT !.seenX = clientX, !.clientX = clientX, !.gestures = @ + 1,
                          !.startedAt = drag.now]
    /\ UNCHANGED <<textVars, refVars>>

\* the mouse moves: onMouseMove runs while it is registered
MouseMove(clientX) ==
    /\ clientX # drag.clientX
    /\ drag.moves < MaxDragEvents
    /\ drag' = [(IF drag.listening
                 THEN [performDrag(drag, clientX) EXCEPT !.moved = TRUE,
                                                         !.seenX = clientX]
                 ELSE drag)
                   EXCEPT !.clientX = clientX, !.moves = @ + 1]
    /\ UNCHANGED <<textVars, refVars>>

\* the button goes up
MouseUp ==
    /\ drag.listening
    /\ drag' = onMouseUp(drag)
    /\ UNCHANGED <<textVars, refVars>>

\* time passes
Tick(delay) ==
    /\ drag.now + delay <= MaxTime
    /\ drag' = [drag EXCEPT !.now = @ + delay]
    /\ UNCHANGED <<textVars, refVars>>

DragNext ==
    \/ \E clientX \in DragXs, img \in DragImages : MouseDown(clientX, img)
    \/ \E clientX \in DragXs : MouseMove(clientX)
    \/ MouseUp
    \/ \E delay \in DragDelays : Tick(delay)

SpecDrag == DragInit /\ [][DragNext]_vars

(***************************************************************************)
(* Claims about the drag, stated over SpecDrag.                            *)
(***************************************************************************)

\* the gesture has ended: the button went down and up again
gestureEnded == drag.gestures > 0 /\ ~drag.listening

\* the updates of the gesture that the mouse-up handler issued
issuedByEndDrag == SelectSeq(drag.updates, LAMBDA u : u.by = "endDrag")

\* the width of the image where the last mouse move of the gesture left the pointer
widthAtRelease ==
    IF drag.moved THEN MaxOf({drag.startWidth + (drag.seenX - drag.startX), MinWidth})
    ELSE drag.startWidth

resizedAgain ==
    matchLineWithInternalLink(link, embedSrc(link), lastOp.arg.width, lastOp.arg.intable)

\* C21: a size rewrite with width w, applied again with the same w to the token it
\* produced, yields the same token text: the token does not grow under repetition,
\* inside or outside a table.
C21_SizeRewriteStable ==
    lastOp.kind = "size" =>
        /\ Len(resizedAgain) = 1
        /\ resizedAgain[1].new_link = link

\* the tokens the picker writes for an alignment, a dark flag and a caption the
\* grammar can carry
pickerTokens ==
    {handleImageSelect(FileName, p, d, c) :
        p \in Alignments, d \in BOOLEAN, c \in {x \in PickerCaptions : LegalCaption(x)}}

\* the token after a second toggleDarkMode
toggledAgain == updateLinkDarkMode(link, ~currentHasDark(link))

\* C22: toggleDarkMode on a well-formed token yields a token whose decoded dark flag
\* is the negation of the flag of the token before, and a second toggle yields a
\* token with the fields of the first.
C22_DarkToggleFlips ==
    (lastOp.kind = "dark" /\ prevLink \in pickerTokens) =>
        /\ decodeDark(link) = ~decodeDark(prevLink)
        /\ decodeToken(toggledAgain) = decodeToken(prevLink)

\* C28: a pipe-form token (no '#' in its first segment) decodes to an absent caption,
\* whatever its segments after the name are.
C28_PipeFormHasNoCaption ==
    (isEmbedLink(link) /\ ~hasHashSyntax(link)) => extractCaptionFromLink(link) = <<>>

\* the tokens the picker writes for the position inline
inlineTokens ==
    {handleImageSelect(FileName, kInline, d, c) :
        d \in BOOLEAN, c \in {x \in PickerCaptions : LegalCaption(x)}}

\* the '|' segments after the name and the '#' segments of the first segment of lnk
keywordsOf(lnk) ==
    LET parts == split(innerOf(lnk), "|")
        hashParts == split(parts[1], "#")
    IN  {trim(parts[i]) : i \in 2..Len(parts)} \cup {hashParts[i] : i \in 2..Len(hashParts)}

\* C23: toggling dark mode or editing the caption of a token whose position keyword is
\* inline leaves the keyword inline in the rewritten token.
C23_InlinePreserved ==
    (lastOp.kind \in {"dark", "caption"} /\ prevLink \in inlineTokens) =>
        kInline \in keywordsOf(link)

(***************************************************************************)
(* Further claims about the handlers, stated over SpecEdit.                *)
(***************************************************************************)

\* the link path of an occurrence: the text up to '|' or ']]' of an embed, the decoded
\* URL of a Markdown image
occurrencePath(fullMatch) ==
    IF startsWith(fullMatch, kOpen) THEN trim(wikiLinkPath(fullMatch))
    ELSE decodeURIComponent(trim(mdLinkUrl(fullMatch))).text

\* linkPath names the file at imagePath: it is that vault path, or that file's name
\* without a folder; a '#' part after the name and the case of letters do not count
refersTo(linkPath, imagePath) ==
    LET file == toLowerCase(split(linkPath, "#")[1])
    IN  \/ file = toLowerCase(imagePath)
        \/ ~includes(file, <<"/">>) /\ file = toLowerCase(lastSegment(imagePath))

\* C25: every match findImageMatches returns for a target path is an occurrence that
\* refers to the file at that path, never an embed of another file.
C25_LocatorSoundness ==
    Located => \A k \in 1..Len(call.matches) :
                   refersTo(occurrencePath(call.matches[k].fullMatch), call.target)

\* the first Enter, Escape or blur of a caption session has been handled
sessionHandled == call.op \in {"captionSave", "captionCancel"}

\* C30: in one caption-edit session, whatever the order of its Enter, Escape and blur
\* events, the document is written at most once, not at all when Escape comes first,
\* and the input box is removed exactly once: after the first event the box is gone,
\* an Escape has left the document as it was, and no further event writes.
C30_SessionWritesOnce ==
    sessionHandled =>
        /\ ~session.attached
        /\ call.op = "captionCancel" => doc = call.before
        /\ \A value \in InputValues : ~handleInput(session, doc, TRUE, value).ran

(***************************************************************************)
(* Further claims about the drag, stated over SpecDrag.                    *)
(***************************************************************************)

\* C24: every width that a drag gesture writes into the document, by an intermediate
\* rewrite of a mouse move or by the final rewrite at mouse-up, is at least 50, for
\* every start size, every sequence of pointer positions and every resizeInterval.
C24_MinimumWidth ==
    \A k \in 1..Len(drag.updates) : drag.updates[k].width >= MinWidth

\* the part of C24 about the intermediate rewrites alone
C24_IntermediateWidths ==
    \A k \in 1..Len(drag.updates) :
        drag.updates[k].by = "performDrag" => drag.updates[k].width >= MinWidth

\* the time of the intermediate rewrite before the k-th update of the gesture, or the
\* time the gesture started
previousRewrite(k) == IF k = 1 THEN drag.startedAt ELSE drag.updates[k - 1].at

lastIndexOf(s, ch) ==
    IF \E i \in 1..Len(s) : s[i] = ch
    THEN MaxOf({i \in 1..Len(s) : s[i] = ch}) - 1
    ELSE -1

\* TFile.extension: what follows the last '.' of the file name
extension(path) ==
    LET name == cut(path, lastIndexOf(path, "/") + 2, Len(path))
        dot == lastIndexOf(name, ".")
    IN  IF dot = -1 THEN <<>> ELSE cut(name, dot + 2, Len(name))

xAgx == <<"a", "g", "x">>

xSvg == <<"s", "v", "g">>

xPng == <<"p", "n", "g">>

SUPPORTED_IMAGE_EXTENSIONS ==
    {xPng, <<"j", "p", "g">>, <<"j", "p", "e", "g">>, <<"g", "i", "f">>, <<"b", "m", "p">>,
     <<"w", "e", "b", "p">>, xSvg, xAgx}

\* customFileTypes of the settings: one type, with its covers beside the files
customFileTypes ==
    <<[fileExtension |-> <<"m", "m">>, coverExtension |-> xPng, coverFolder |-> <<>>]>>

\* the files a vault may hold, in the order of their creation time: an AGX drawing and
\* its SVG, a file of the custom type and its cover, and a plain image
LoaderFiles ==
    <<<<"f", "/", "d", ".", "a", "g", "x">>, <<"f", "/", "d", ".", "s", "v", "g">>,
      <<"f", "/", "m", ".", "m", "m">>, <<"f", "/", "m", ".", "p", "n", "g">>,
      <<"f", "/", "p", ".", "p", "n", "g">>>>

LoaderPaths == {LoaderFiles[k] : k \in 1..Len(LoaderFiles)}

\* path.replace(/\.agx$/i, ".svg")
svgPathOf(path) ==
    IF endsWith(toLowerCase(path), <<".">> \o xAgx)
    THEN cut(path, 1, Len(path) - 4) \o <<".">> \o xSvg
    ELSE path

getCoverPath(filePath, config) ==
    LET directory == cut(filePath, 1, lastIndexOf(filePath, "/"))
        fileName == cut(filePath, lastIndexOf(filePath, "/") + 2, Len(filePath))
        baseName == cut(fileName, 1, lastIndexOf(fileName, "."))
        coverDir == IF trim(config.coverFolder) # <<>>
                    THEN IF startsWith(config.coverFolder, <<"/">>)
                         THEN cut(config.coverFolder, 2, Len(config.coverFolder))
                         ELSE directory \o <<"/">> \o config.coverFolder
                    ELSE directory
    IN  coverDir \o <<"/">> \o baseName \o <<".">> \o config.coverExtension

\* customFileTypes.find(config => config.fileExtension.toLowerCase() === extension),
\* as the list of the configurations that match
matchedConfigs(ext) ==
    SelectSeq(customFileTypes, LAMBDA config : toLowerCase(config.fileExtension) = ext)

\* the descriptor of one file; files holds the paths getAbstractFileByPath finds
processImageFile(file, files) ==
    LET ext == toLowerCase(extension(file))
        isAgx == ext = xAgx
        matched == IF isAgx THEN <<>> ELSE matchedConfigs(ext)
        isCustomType == matched # <<>>
        coverPath == IF isAgx THEN svgPathOf(file)
                     ELSE IF isCustomType THEN getCoverPath(file, matched[1])
                     ELSE file
    IN  [name |-> cut(file, lastIndexOf(file, "/") + 2, Len(file)), path |-> file,
         originalFile |-> file,
         displayFile |-> IF coverPath \in files THEN coverPath ELSE file,
         isAgx |-> isAgx, isCustomType |-> isCustomType,
         coverMissing |-> (isAgx \/ isCustomType) /\ coverPath \notin files]

\* ImageLoaderService.loadImages("") over the files of the vault: the SVG of an AGX
\* file and the cover of a custom file are left out, every other image and custom file
\* gets a descriptor
loaderLoadImages(files) ==
    LET allFiles == SelectSeq(LoaderFiles, LAMBDA file : file \in files)
        usedSvgPaths == {svgPathOf(file) : file \in {f \in files : toLowerCase(extension(f)) = xAgx}}
        usedCoverPaths ==
            UNION {{getCoverPath(customFile, customFileTypes[c]) :
                       customFile \in {f \in files :
                           toLowerCase(extension(f))
                               = toLowerCase(customFileTypes[c].fileExtension)}} :
                   c \in 1..Len(customFileTypes)}
        imageFiles ==
            SelectSeq(allFiles,
                      LAMBDA file :
                          /\ ~(toLowerCase(extension(file)) = xSvg /\ file \in usedSvgPaths)
                          /\ file \notin usedCoverPaths
                          /\ \/ toLowerCase(extension(file)) \in SUPPORTED_IMAGE_EXTENSIONS
                             \/ matchedConfigs(toLowerCase(extension(file))) # <<>>)
    IN  [k \in 1..Len(imageFiles) |-> processImageFile(imageFiles[k], files)]

\* no reference check has run
NoQuery == [op |-> "none", imageItem |-> <<>>, targetFile |-> <<>>, references |-> <<>>]

\* the notes of the vault embed the companion images, or the source files
LoaderInit ==
    /\ vault = {}
    /\ view = <<>>
    /\ svcStep = NoQuery
    /\ backlinks \in {[p \in LoaderPaths |->
                          IF toLowerCase(extension(p)) \in {xSvg, xPng}
                          THEN OneReference ELSE NoReferences],
                      [p \in LoaderPaths |->
                          IF toLowerCase(extension(p)) \in {xSvg, xPng}
                          THEN NoReferences ELSE OneReference]}
    /\ referenceCache = <<>>
    /\ calls = <<>>
    /\ queryCount = <<>>
    /\ refOps = 0
    /\ drag = <<>>
    /\ TextIdle

\* a file appears in the vault
FileCreated(path) ==
    /\ path \notin vault
    /\ vault' = vault \cup {path}
    /\ UNCHANGED <<view, svcStep, backlinks, referenceCache, calls, queryCount, refOps,
                   textVars, dragVars>>

\* a file is deleted from the vault
FileDeleted(path) ==
    /\ path \in vault
    /\ vault' = vault \ {path}
    /\ UNCHANGED <<view, svcStep, backlinks, referenceCache, calls, queryCount, refOps,
                   textVars, dragVars>>

\* the manager loads the images of the vault
LoadImages ==
    /\ view' = loaderLoadImages(vault)
    /\ svcStep' = NoQuery
    /\ UNCHANGED <<vault, backlinks, referenceCache, calls, queryCount, refOps,
                   textVars, dragVars>>

\* the reference check reaches descriptor k, which the cache does not hold
QueryReferences(k) ==
    /\ k \in 1..Len(view)
    /\ svcStep' = [op |-> "query", imageItem |-> view[k],
                   targetFile |-> targetFile(view[k]),
                   references |-> findReferencesUsingBacklinks(backlinks, view[k])]
    /\ UNCHANGED <<vault, view, backlinks, referenceCache, calls, queryCount, refOps,
                   textVars, dragVars>>

LoaderNext ==
    \/ \E path \in LoaderPaths : FileCreated(path)
    \/ \E path \in LoaderPaths : FileDeleted(path)
    \/ LoadImages
    \/ \E k \in 1..Len(LoaderFiles) : QueryReferences(k)

SpecLoader == LoaderInit /\ [][LoaderNext]_vars

(***************************************************************************)
(* Claims about the loader and the reference check, stated over SpecLoader.*)
(***************************************************************************)

\* the descriptor stands for a source file that is shown through a companion image
shownThroughCover(imageItem) == imageItem.displayFile # imageItem.originalFile

\* the file the claim names for a descriptor
resolutionTarget(imageItem) ==
    IF shownThroughCover(imageItem) THEN imageItem.displayFile ELSE imageItem.originalFile

\* C27: the file whose backlinks are queried for a descriptor is the descriptor's own
\* file, except that for a descriptor of a source file shown through a companion cover
\* image, of a custom file type or an AGX file alike, it is that cover file.
C27_ResolutionTarget ==
    svcStep.op = "query" => svcStep.targetFile = resolutionTarget(svcStep.imageItem)

\* the part of C27 about every descriptor that is not one of an AGX file
C27_TargetOfOtherFiles ==
    (svcStep.op = "query" /\ ~svcStep.imageItem.isAgx) =>
        svcStep.targetFile = resolutionTarget(svcStep.imageItem)

\* a custom file with its cover has been queried
C27_CoverQueried ==
    /\ svcStep.op = "query"
    /\ svcStep.imageItem.isCustomType
    /\ svcStep.targetFile = svcStep.imageItem.displayFile
    /\ svcStep.targetFile # svcStep.imageItem.originalFile

(***************************************************************************)
(* BatchDeleteConfirmModal: one modal, the clicks and keys it receives     *)
(* while it is open, and the onConfirm callbacks it has started.  Each     *)
(* callback deletes its images one after another and reports its progress. *)
(***************************************************************************)

\* the calls of handleConfirm followed
MaxConfirms == 3

\* the images the modal was opened for
ModalImages == 2

\* a modal after its constructor: not opened, nothing rendered, no callback started
NewModal ==
    [opened |-> FALSE, isOpen |-> FALSE, hasButtons |-> FALSE, progressShown |-> FALSE,
     progressText |-> 0, runs |-> <<>>, byEnter |-> FALSE]

\* onOpen renders the body and the two buttons into contentEl
modalOnOpen(m) == [m EXCEPT !.hasButtons = TRUE, !.progressShown = FALSE]

\* close() and onClose: contentEl is emptied and the scope of the modal is left
modalClose(m) == [m EXCEPT !.isOpen = FALSE, !.hasButtons = FALSE, !.progressShown = FALSE]

\* hideLoadingState: contentEl is emptied and onOpen renders the modal again
hideLoadingState(m) == modalOnOpen(m)

\* handleConfirm up to its await: showLoadingState replaces the body and the buttons
\* by the progress line, then onConfirm is called
handleConfirm(m) ==
    [m EXCEPT !.hasButtons = FALSE, !.progressShown = TRUE, !.progressText = 0,
              !.runs = Append(@, [state |-> "running", current |-> 0])]

\* the onConfirm callbacks that have started and not settled
inFlight(m) == {r \in 1..Len(m.runs) : m.runs[r].state = "running"}

ModalInit ==
    /\ view = NewModal
    /\ referenceCache = <<>>
    /\ backlinks = <<>>
    /\ calls = <<>>
    /\ queryCount = <<>>
    /\ svcStep = <<>>
    /\ vault = <<>>
    /\ refOps = 0
    /\ drag = <<>>
    /\ TextIdle

modalFrame ==
    UNCHANGED <<referenceCache, backlinks, calls, queryCount, svcStep, vault, refOps,
                textVars, dragVars>>

\* modal.open() of handleBatchDelete
ModalOpen ==
    /\ ~view.opened
    /\ view' = modalOnOpen([view EXCEPT !.opened = TRUE, !.isOpen = TRUE])
    /\ modalFrame

\* a click on the confirm button, while the button is there
ClickConfirm ==
    /\ view.isOpen
    /\ view.hasButtons
    /\ Len(view.runs) < MaxConfirms
    /\ view' = handleConfirm(view)
    /\ modalFrame

\* the Enter key, handled by the scope of the modal while the modal is open
PressEnter ==
    /\ view.isOpen
    /\ Len(view.runs) < MaxConfirms
    /\ view' = [handleConfirm(view) EXCEPT !.byEnter = TRUE]
    /\ modalFrame

\* the Escape key, or a click on the cancel button while the button is there
Dismiss(byKey) ==
    /\ view.isOpen
    /\ byKey \/ view.hasButtons
    /\ view' = modalClose(view)
    /\ modalFrame

\* callback r has deleted one more image and reports it through onProgress
OnProgress(r) ==
    /\ r \in inFlight(view)
    /\ view.runs[r].current < ModalImages
    /\ view' = [view EXCEPT !.runs[r].current = @ + 1,
                            !.progressText = IF view.progressShown
                                             THEN view.runs[r].current + 1 ELSE @]
    /\ modalFrame

\* callback r resolves: handleConfirm goes on to this.close()
ConfirmResolves(r) ==
    /\ r \in inFlight(view)
    /\ view.runs[r].current = ModalImages
    /\ view' = modalClose([view EXCEPT !.runs[r].state = "resolved"])
    /\ modalFrame

\* callback r rejects: the catch of handleConfirm restores the modal
ConfirmRejects(r) ==
    /\ r \in inFlight(view)
    /\ view' = hideLoadingState([view EXCEPT !.runs[r].state = "rejected"])
    /\ modalFrame

ModalNext ==
    \/ ModalOpen
    \/ ClickConfirm
    \/ PressEnter
    \/ \E byKey \in BOOLEAN : Dismiss(byKey)
    \/ \E r \in 1..MaxConfirms : OnProgress(r)
    \/ \E r \in 1..MaxConfirms : ConfirmResolves(r)
    \/ \E r \in 1..MaxConfirms : ConfirmRejects(r)

SpecModal == ModalInit /\ [][ModalNext]_vars

(***************************************************************************)
(* Claims about the confirmation modal, stated over SpecModal.             *)
(***************************************************************************)

\* the onConfirm callbacks that have rejected
rejected(m) == {r \in 1..Len(m.runs) : m.runs[r].state = "rejected"}

\* C29: for one opening of the modal, under any sequence of confirm clicks and Enter
\* presses, also while a deletion is in progress, at most one onConfirm callback is
\* running at a time, and a callback is started again only after the one before has
\* failed and the modal has been restored.
C29_ConfirmRunsOnce ==
    /\ Cardinality(inFlight(view)) <= 1
    /\ Len(view.runs) <= Cardinality(rejected(view)) + 1

\* the part of C29 about confirm clicks alone
C29_ClicksRunOnce ==
    ~view.byEnter =>
        /\ Cardinality(inFlight(view)) <= 1
        /\ Len(view.runs) <= Cardinality(rejected(view)) + 1

====
